---- MODULE Spec2Model ----
(***************************************************************************)
(* Local chain-proof cache and payment engine of the BSV overlay skill     *)
(* (scripts/overlay-cli.mjs): the persisted change frontier                *)
(* (latest-change.json), the tiered funding of overlay and payment         *)
(* transactions, the sweep, the payment verifier with its append-only      *)
(* ledger (received-payments.jsonl) and the relay message dispatcher.      *)
(*                                                                         *)
(* A CLI invocation that runs alone is one action.  Two processes inside   *)
(* buildDirectPayment, and the 'message' callbacks of connect, are split   *)
(* at the awaits where another run can come in.  What the indexer, the     *)
(* overlay, the relay and the file system answer is drawn with \E from the *)
(* outcomes they can produce.                                              *)
(***************************************************************************)
EXTENDS Integers, Sequences, FiniteSets, TLC

(***************************************************************************)
(* Bounds of the model                                                     *)
(***************************************************************************)
\* transactions (funding transactions and built ones) a behaviour may create
MaxTx == 4
\* records the received-payments ledger may hold
MaxLedger == 2
\* builds one after the other whose ancestor chain is followed
MaxBuilds == 17

\* days the plugin runs through
MaxDay == 2

\* tool calls the host starts
MaxCalls == 3

\* outputs that arrive at the wallet address while the plugin runs
MaxOutputs == 2

\* connect children the plugin spawns
MaxSpawns == 4

\* values of the outputs that arrive at the wallet address from outside
FundValues == {300, 400}
\* amounts asked of cmdPay
PaySats == {10, 50}

(***************************************************************************)
(* Program constants                                                       *)
(***************************************************************************)
\* buildDirectPayment: a source must cover sats + 200
PayReserve == 200
\* buildRealOverlayTransaction: stored change and UTXOs must hold >= 200
OverlayMinFunding == 200
\* buildFromStoredBeef / buildRealFundedTx: const fee = 200
OverlayFee == 200
\* buildDirectPayment: P2PKH dust threshold
DustThreshold == 136
\* cmdRefund: Math.max(Math.ceil(estimatedSize / 1000), 100)
RefundMinFee == 100
\* txid of the fabricated funding transaction: it has no inputs and one fixed
\* output, so every synthetic build fabricates the same transaction
SyntheticFundingTxid == 0

VARIABLES
    network,        \* BSV_NETWORK
    allowSynthetic, \* process.env.ALLOW_SYNTHETIC === 'true'
    frontier,       \* latest-change.json
    indexer,        \* unspent outputs the indexer reports for the wallet address
    spends,         \* history: (transaction, outpoint) for every input of a built transaction
    nextTxid,       \* next fresh transaction id
    lastOp,         \* what the last build or sweep did
    ledger,         \* received-payments.jsonl, one record per line
    lastMsg,        \* what the dispatcher did with the last delivered message
    wire,           \* the bundle buildDirectPayment last encoded for a peer
    lastVerify,     \* the last call of the payment verifier and its result
    invocations,    \* CLI processes inside buildDirectPayment
    inflight,       \* connect: 'message' callbacks waiting at an await
    lastPoll,       \* what the last cmdPoll did with its inbox
    listener,       \* connect: the socket, the reconnect delay and what the callbacks caught
    call,           \* the outbound network call in progress and the answers it got
    lineage,        \* the last built transaction with its linked ancestors, what was saved of it, its bundle
    merkle,         \* the last indexer proof and the MerklePath built from it
    auth,           \* the last relay message signed and the last verification of a signature
    budget,         \* plugin: daily-spending.json, the day, the tool calls in progress, the payments sent
    importer,       \* plugin: the auto-import interval, knownTxids, the outputs at the wallet address, the wallet's imports
    background      \* plugin: serviceRunning, backgroundProcess, the connect children alive, the restart timers pending

vars == <<network, allowSynthetic, frontier, indexer, spends, nextTxid, lastOp, ledger,
          lastMsg, wire, lastVerify, invocations, inflight, lastPoll, listener, call, lineage, merkle,
          auth, budget, importer, background>>

(***************************************************************************)
(* Arithmetic helpers                                                      *)
(***************************************************************************)
Max(a, b) == IF a >= b THEN a ELSE b

Min(a, b) == IF a <= b THEN a ELSE b

\* Math.ceil(a / b) for a >= 0, b > 0
CeilDiv(a, b) == (a + b - 1) \div b

\* Math.pow(2, n), 1 << n
RECURSIVE Pow2(_)
Pow2(n) == IF n = 0 THEN 1 ELSE 2 * Pow2(n - 1)

RECURSIVE SumValues(_)
SumValues(S) ==
    IF S = {} THEN 0
    ELSE LET u == CHOOSE x \in S : TRUE IN u.value + SumValues(S \ {u})

(***************************************************************************)
(* Chain cache: latest-change.json                                         *)
(***************************************************************************)
Absent == [state |-> "absent", txid |-> 0, vout |-> 0, satoshis |-> 0]

CorruptFile == [state |-> "corrupt", txid |-> 0, vout |-> 0, satoshis |-> 0]

Present(t, v, s) == [state |-> "present", txid |-> t, vout |-> v, satoshis |-> s]

\* what fs.writeFileSync can do to the file: write it, fail before touching
\* it, or fail after truncating it
WriteOutcomes == {"ok", "unchanged", "truncated"}

NoSave == [called |-> FALSE, txid |-> 0, vout |-> 0, satoshis |-> 0]

SaveCall(t, v, s) == [called |-> TRUE, txid |-> t, vout |-> v, satoshis |-> s]

\* slip: the file is opened with flag 'wx', an existing file is left as it is
saveChangeBeef_exclusive(old, txid, changeSats, changeVout, w) ==
    IF old.state # "absent" THEN old
    ELSE IF w = "ok" THEN Present(txid, changeVout, changeSats)
    ELSE IF w = "unchanged" THEN old
    ELSE CorruptFile

\* saveChangeBeef: overwrite the file; a failing write is swallowed
saveChangeBeef(old, txid, changeSats, changeVout, w) ==
    IF w = "ok" THEN Present(txid, changeVout, changeSats)
    ELSE IF w = "unchanged" THEN old
    ELSE CorruptFile

Outpoint(f) == <<f.txid, f.vout>>

UtxoOutpoint(u) == <<u.tx_hash, u.tx_pos>>

Utxo(t, p, v) == [tx_hash |-> t, tx_pos |-> p, value |-> v]

OnChain(s, out) == \E u \in s.indexer : UtxoOutpoint(u) = out

\* a broadcast or overlay submission that reaches the chain: the inputs
\* leave the indexer's unspent set, the change output enters it
Settle(s, ins, txid, changeOut, change) ==
    {u \in s.indexer : UtxoOutpoint(u) \notin ins}
        \cup (IF changeOut THEN {Utxo(txid, 1, change)} ELSE {})

\* whether a transaction spending src can reach the chain at all
Reach(s, src) == IF OnChain(s, src) THEN BOOLEAN ELSE {FALSE}

(***************************************************************************)
(* Records of what an operation did                                        *)
(***************************************************************************)
Attempt(t, o) == [tier |-> t, outcome |-> o]

NoOp ==
    [kind |-> "none", ok |-> FALSE, error |-> "", funded |-> "",
     attempts |-> <<>>, wocCalls |-> 0, cached |-> Absent, need |-> 0,
     txid |-> 0, inputs |-> {}, changeOut |-> FALSE, change |-> 0,
     saveCall |-> NoSave, writeOk |-> FALSE, cleared |-> FALSE]

\* the state an operation leaves
Outcome(f, ix, sp, nx, op) ==
    [frontier |-> f, indexer |-> ix, spends |-> sp, nextTxid |-> nx, lastOp |-> op]

Spend(txid, ins) == {[tx |-> txid, out |-> o] : o \in ins}

\* a throw: nothing is built, nothing is written
Throw(s, kind, need, attempts, calls, err) ==
    [s EXCEPT !.lastOp =
        [NoOp EXCEPT !.kind = kind, !.error = err, !.attempts = attempts,
                     !.wocCalls = calls, !.cached = s.frontier, !.need = need]]

\* a signed transaction with one input src and, if changeOut, a change
\* output at index 1; saves: saveChangeBeef(tx, change, 1) is called
Built(s, kind, need, attempts, calls, funded, src, changeOut, saves, change, w, reached) ==
    LET txid == s.nextTxid
    IN  Outcome(
            IF saves THEN saveChangeBeef(s.frontier, txid, change, 1, w) ELSE s.frontier,
            IF reached THEN Settle(s, {src}, txid, changeOut, change) ELSE s.indexer,
            s.spends \cup Spend(txid, {src}),
            txid + 1,
            [NoOp EXCEPT !.kind = kind, !.ok = TRUE, !.funded = funded,
                         !.attempts = attempts, !.wocCalls = calls,
                         !.cached = s.frontier, !.need = need,
                         !.txid = txid, !.inputs = {src},
                         !.changeOut = changeOut,
                         !.change = IF changeOut THEN change ELSE 0,
                         !.saveCall = IF saves THEN SaveCall(txid, 1, change) ELSE NoSave,
                         !.writeOk = saves /\ w = "ok"])

Writes(saves) == IF saves THEN WriteOutcomes ELSE {"ok"}

(***************************************************************************)
(* cmdPay: buildDirectPayment                                              *)
(* Every operator below yields the set of states the code can leave,       *)
(* one per answer of the indexer, the overlay and the file system.         *)
(***************************************************************************)
\* slip: the size estimate counts the input alone
PaymentFee_inputOnly == Max(CeilDiv(148 * 5, 10), 50)

\* const estimatedSize = 148 + 34 * 2 + 10; fee = max(ceil(size * 0.5), 50)
PaymentFee == Max(CeilDiv((148 + 34 * 2 + 10) * 5, 10), 50)

\* if (change >= 136) tx.addOutput(change)
PayHasChange(change) == change >= DustThreshold

\* if (change >= 136) saveChangeBeef(tx, change, 1)
PaySavesChange(change) == change >= DustThreshold

\* the transaction once a source (src, value) is resolved
PayBuild(s, sats, attempts, calls, funded, src, value) ==
    LET change == value - sats - PaymentFee
        changeOut == PayHasChange(change)
        saves == PaySavesChange(change)
    IN  IF change < 0
        THEN {Throw(s, "pay", sats + PayReserve, attempts, calls,
                    "Insufficient funds after fee")}
        ELSE {Built(s, "pay", sats + PayReserve, attempts, calls, funded,
                    src, changeOut, saves, change, w, b) :
                  w \in Writes(saves), b \in Reach(s, src)}

\* slip: the fee is reserved a second time, so a covering frontier is passed over
PayUsesStored_feeTwice(stored, sats) ==
    stored.state = "present" /\ stored.satoshis >= sats + PayReserve + PaymentFee

\* slip: the file is taken as a frontier whenever it exists, parsed or not
PayUsesStored_unparsed(stored, sats) == stored.state # "absent"

\* the stored change covers the payment
PayUsesStored(stored, sats) ==
    stored.state = "present" /\ stored.satoshis >= sats + PayReserve

\* the indexer tier of buildDirectPayment, entered with the cache's outcome t1
PayIndexerTier(s, sats, t1) ==
    LET utxos == {u \in s.indexer : u.value >= sats + PayReserve}
        failed == <<Attempt(1, t1), Attempt(2, "failed")>>
        need == sats + PayReserve
    IN  {Throw(s, "pay", need, failed, 1, "Failed to fetch UTXOs")}
        \cup (IF utxos = {}
              THEN {Throw(s, "pay", need, failed, 1, "Insufficient funds")}
              ELSE {Throw(s, "pay", need, failed, 2, "Failed to fetch source tx")}
                   \cup UNION {PayBuild(s, sats, <<Attempt(1, t1), Attempt(2, "ok")>>,
                                        3, "real", UtxoOutpoint(u), u.value) :
                                   u \in utxos})

buildDirectPayment(s, sats) ==
    LET stored == s.frontier
        t1 == IF stored.state = "corrupt" THEN "failed" ELSE "unavailable"
    IN  IF PayUsesStored(stored, sats)
        THEN PayBuild(s, sats, <<Attempt(1, "ok")>>, 0, "stored-beef",
                      Outpoint(stored), stored.satoshis)
        ELSE PayIndexerTier(s, sats, t1)

Cur == Outcome(frontier, indexer, spends, nextTxid, lastOp)

Apply(r) ==
    /\ frontier' = r.frontier
    /\ indexer' = r.indexer
    /\ spends' = r.spends
    /\ nextTxid' = r.nextTxid
    /\ lastOp' = r.lastOp

cmdPay ==
    /\ nextTxid <= MaxTx
    /\ \E sats \in PaySats : \E r \in buildDirectPayment(Cur, sats) : Apply(r)
    /\ UNCHANGED <<network, allowSynthetic, ledger, lastMsg, wire, lastVerify,
                 invocations, inflight, lastPoll, listener, call, lineage, merkle, auth, budget, importer, background>>

(***************************************************************************)
(* cmdAdvertise: buildRealOverlayTransaction                               *)
(***************************************************************************)
\* buildSyntheticTx: refused on mainnet unless ALLOW_SYNTHETIC=true; the
\* fabricated funding output is the input
SyntheticRefused == network = "mainnet" /\ ~allowSynthetic

buildSyntheticTx(s, kind, attempts, calls) ==
    IF SyntheticRefused
    THEN {Throw(s, kind, OverlayMinFunding, attempts \o <<Attempt(4, "refused")>>,
                calls, "No funds available")}
    ELSE {Built(s, kind, OverlayMinFunding, attempts \o <<Attempt(4, "ok")>>,
                calls, "synthetic", <<SyntheticFundingTxid, 0>>,
                FALSE, FALSE, 0, "ok", FALSE)}

\* buildWalletCreateActionTx: the wallet picks its own inputs; it throws on a
\* balance under 100, when createAction fails or when the overlay refuses
WalletTx(s, kind, attempts, calls) ==
    [s EXCEPT !.nextTxid = s.nextTxid + 1,
              !.lastOp = [NoOp EXCEPT !.kind = kind, !.ok = TRUE,
                                      !.funded = "wallet-internal",
                                      !.attempts = attempts \o <<Attempt(3, "ok")>>,
                                      !.wocCalls = calls, !.cached = s.frontier,
                                      !.need = OverlayMinFunding,
                                      !.txid = s.nextTxid]]

\* try { buildWalletCreateActionTx } catch { buildSyntheticTx }
OverlayLastResort(s, attempts, calls) ==
    {WalletTx(s, "overlay", attempts, calls)}
        \cup buildSyntheticTx(s, "overlay", attempts \o <<Attempt(3, "unavailable")>>, calls)
        \cup buildSyntheticTx(s, "overlay", attempts \o <<Attempt(3, "failed")>>, calls)

\* const changeSats = utxo.value - fee; if (changeSats > 0) addOutput
FundedHasChange(changeSats) == changeSats > 0

\* slip: the save is made only for a change above the payment path's dust limit
FundedSavesChange_dustOnly(changeSats) == changeSats >= DustThreshold

\* if (changeSats > 0) saveChangeBeef(tx, changeSats, 1)
FundedSavesChange(changeSats) == changeSats > 0

\* buildRealFundedTx, when neither the indexer nor the overlay fails
buildRealFundedTx(s, utxo, attempts) ==
    LET changeSats == utxo.value - OverlayFee
        changeOut == FundedHasChange(changeSats)
        saves == FundedSavesChange(changeSats)
    IN  {Built(s, "overlay", OverlayMinFunding, attempts \o <<Attempt(2, "ok")>>,
               3, "real", UtxoOutpoint(utxo), changeOut, saves, changeSats, w, b) :
             w \in Writes(saves), b \in BOOLEAN}

\* storedChange.satoshis - fee > 0: the change output is added
StoredHasChange(changeSats) == changeSats > 0

\* if (changeSats > 0) saveChangeBeef(tx, changeSats, 1)
StoredSavesChange(changeSats) == changeSats > 0

\* buildFromStoredBeef, when the overlay accepts the submission
buildFromStoredBeef(s, stored) ==
    LET changeSats == stored.satoshis - OverlayFee
        changeOut == StoredHasChange(changeSats)
        saves == StoredSavesChange(changeSats)
    IN  {Built(s, "overlay", OverlayMinFunding, <<Attempt(1, "ok")>>, 0,
               "stored-beef", Outpoint(stored), changeOut, saves, changeSats, w, b) :
             w \in Writes(saves), b \in Reach(s, Outpoint(stored))}

\* slip: buildRealFundedTx is awaited outside a try, so its throw reaches the caller
OverlayIndexerTier_uncaught(s, attempts) ==
    LET utxos == {u \in s.indexer : u.value >= OverlayMinFunding}
    IN  OverlayLastResort(s, attempts \o <<Attempt(2, "failed")>>, 1)
        \cup (IF utxos = {}
              THEN OverlayLastResort(s, attempts \o <<Attempt(2, "unavailable")>>, 1)
              ELSE {Throw(s, "overlay", OverlayMinFunding,
                          attempts \o <<Attempt(2, "failed")>>, 2,
                          "Failed to fetch source tx")}
                   \cup UNION {buildRealFundedTx(s, u, attempts) : u \in utxos})

\* the WoC fallback: the unspent query, then buildRealFundedTx on utxos[0];
\* a failed query leaves utxos empty, a throw of buildRealFundedTx is caught
OverlayIndexerTier(s, attempts) ==
    LET utxos == {u \in s.indexer : u.value >= OverlayMinFunding}
    IN  OverlayLastResort(s, attempts \o <<Attempt(2, "failed")>>, 1)
        \cup (IF utxos = {}
              THEN OverlayLastResort(s, attempts \o <<Attempt(2, "unavailable")>>, 1)
              ELSE OverlayLastResort(s, attempts \o <<Attempt(2, "failed")>>, 2)
                   \cup UNION {buildRealFundedTx(s, u, attempts) : u \in utxos})

\* storedChange && storedChange.txHex && storedChange.satoshis >= 200
OverlayUsesStored(stored) ==
    stored.state = "present" /\ stored.satoshis >= OverlayMinFunding

\* slip: the stored change is never looked at, resolution starts at the indexer
buildRealOverlayTransaction_indexerFirst(s) == OverlayIndexerTier(s, <<>>)

buildRealOverlayTransaction(s) ==
    LET stored == s.frontier
    IN  IF OverlayUsesStored(stored)
        THEN buildFromStoredBeef(s, stored)
             \cup OverlayIndexerTier(s, <<Attempt(1, "failed")>>)
        ELSE OverlayIndexerTier(s,
                 <<Attempt(1, IF stored.state = "corrupt" THEN "failed"
                              ELSE "unavailable")>>)

cmdAdvertise ==
    /\ nextTxid <= MaxTx
    /\ \E r \in buildRealOverlayTransaction(Cur) : Apply(r)
    /\ UNCHANGED <<network, allowSynthetic, ledger, lastMsg, wire, lastVerify,
                 invocations, inflight, lastPoll, listener, call, lineage, merkle, auth, budget, importer, background>>

(***************************************************************************)
(* The earlier CLI (second copy of overlay-cli.mjs in the repository):     *)
(* no chain cache, no mainnet guard before the synthetic transaction       *)
(***************************************************************************)
\* buildSyntheticTx of the earlier CLI: always builds on the fabricated output
legacy_buildSyntheticTx(s, attempts, calls) ==
    {Built(s, "legacy-overlay", OverlayMinFunding, attempts \o <<Attempt(4, "ok")>>,
           calls, "synthetic", <<SyntheticFundingTxid, 0>>,
           FALSE, FALSE, 0, "ok", FALSE)}

\* try { buildWalletCreateActionTx } catch { buildSyntheticTx }
legacy_LastResort(s, attempts, calls) ==
    {WalletTx(s, "legacy-overlay", attempts, calls)}
        \cup legacy_buildSyntheticTx(s, attempts \o <<Attempt(3, "unavailable")>>, calls)
        \cup legacy_buildSyntheticTx(s, attempts \o <<Attempt(3, "failed")>>, calls)

\* buildRealFundedTx of the earlier CLI: the change is imported into the
\* wallet, nothing is written to a chain cache; its throws are not caught
legacy_buildRealFundedTx(s, utxo) ==
    LET changeSats == utxo.value - OverlayFee
        changeOut == FundedHasChange(changeSats)
    IN  {Throw(s, "legacy-overlay", OverlayMinFunding, <<Attempt(2, "failed")>>, 2,
               "Failed to fetch source tx")}
        \cup {Built(s, "legacy-overlay", OverlayMinFunding, <<Attempt(2, "ok")>>,
                    3, "real", UtxoOutpoint(utxo), changeOut, FALSE, changeSats,
                    "ok", b) : b \in BOOLEAN}

legacy_buildRealOverlayTransaction(s) ==
    LET utxos == {u \in s.indexer : u.value >= OverlayMinFunding}
    IN  legacy_LastResort(s, <<Attempt(2, "failed")>>, 1)
        \cup (IF utxos = {}
              THEN legacy_LastResort(s, <<Attempt(2, "unavailable")>>, 1)
              ELSE UNION {legacy_buildRealFundedTx(s, u) : u \in utxos})

legacy_cmdAdvertise ==
    /\ nextTxid <= MaxTx
    /\ \E r \in legacy_buildRealOverlayTransaction(Cur) : Apply(r)
    /\ UNCHANGED <<network, allowSynthetic, ledger, lastMsg, wire, lastVerify,
                 invocations, inflight, lastPoll, listener, call, lineage, merkle, auth, budget, importer, background>>

(***************************************************************************)
(* cmdRefund: sweep everything to an outside address                       *)
(***************************************************************************)
\* fee = max(ceil((inputCount * 148 + 34 + 10) / 1000), 100)
RefundFee(inputCount) == Max(CeilDiv(inputCount * 148 + 34 + 10, 1000), RefundMinFee)

RefundFail(s, calls, err) == Throw(s, "refund", 0, <<>>, calls, err)

\* the sweep of the stored change (if it is not among the indexer's outputs)
\* and of the indexer outputs whose source transaction could be fetched;
\* after the broadcast: try { fs.unlinkSync(beefStorePath) } catch {}
RefundSweep(s, storedIn, fetched) ==
    LET stored == s.frontier
        ins == (IF storedIn THEN {Outpoint(stored)} ELSE {})
                   \cup {UtxoOutpoint(u) : u \in fetched}
        totalInput == (IF storedIn THEN stored.satoshis ELSE 0) + SumValues(fetched)
        fee == RefundFee(Cardinality(ins))
        calls == 1 + Cardinality(fetched)
        txid == s.nextTxid
    IN  IF totalInput = 0 THEN {RefundFail(s, calls, "No spendable funds found")}
        ELSE IF totalInput <= fee THEN {RefundFail(s, calls, "Total value <= fee")}
        ELSE {RefundFail(s, calls + 1, "Broadcast failed")}
                 \cup {Outcome(IF unlinkOk THEN Absent ELSE stored,
                               {u \in s.indexer : UtxoOutpoint(u) \notin ins},
                               s.spends \cup Spend(txid, ins),
                               txid + 1,
                               [NoOp EXCEPT !.kind = "refund", !.ok = TRUE,
                                            !.wocCalls = calls + 1, !.cached = stored,
                                            !.txid = txid, !.inputs = ins,
                                            !.cleared = TRUE, !.writeOk = unlinkOk]) :
                           unlinkOk \in BOOLEAN}

\* stored.satoshis > 0 && !utxos.some(u => u.tx_hash === stored.txid)
RefundIncludesStored(s, utxos) ==
    /\ s.frontier.state = "present"
    /\ s.frontier.satoshis > 0
    /\ ~\E u \in utxos : u.tx_hash = s.frontier.txid

Refund(s) ==
    LET utxos == s.indexer
    IN  {RefundFail(s, 1, "Failed to fetch UTXOs")}
        \cup (IF utxos = {}
              THEN {RefundFail(s, 1, "No UTXOs found")}
              ELSE UNION {RefundSweep(s, RefundIncludesStored(s, utxos), fetched) :
                              fetched \in SUBSET utxos})

cmdRefund ==
    /\ nextTxid <= MaxTx
    /\ \E r \in Refund(Cur) : Apply(r)
    /\ UNCHANGED <<network, allowSynthetic, ledger, lastMsg, wire, lastVerify,
                 invocations, inflight, lastPoll, listener, call, lineage, merkle, auth, budget, importer, background>>

(***************************************************************************)
(* The environment: an output arrives at the wallet address                *)
(***************************************************************************)
Fund ==
    /\ nextTxid <= MaxTx
    /\ \E v \in FundValues :
           indexer' = indexer \cup {Utxo(nextTxid, 0, v)}
    /\ nextTxid' = nextTxid + 1
    /\ UNCHANGED <<network, allowSynthetic, frontier, spends, lastOp, ledger, lastMsg, wire, lastVerify,
                 invocations, inflight, lastPoll, listener, call, lineage, merkle, auth, budget, importer, background>>

(***************************************************************************)
(* Message authenticator                                                   *)
(* Strings are sequences of characters, + is \o.  sha256 and ECDSA are     *)
(* taken as ideal: a signature verifies under a key exactly when that key  *)
(* made it over the same preimage.                                         *)
(***************************************************************************)
Us == <<"U">>

Peer == <<"A">>

Mallory == <<"M">>

\* Hash.hash160 of our public key
OurHash160 == "h160-U"

OtherHash160 == "h160-X"

\* Hash.hash160 of the paying peer's public key
PeerHash160 == "h160-A"

NoPayment == [present |-> FALSE, beef |-> "", satoshis |-> 0]

Payment(b, sats) == [present |-> TRUE, beef |-> b, satoshis |-> sats]

\* JSON.stringify of a payload {serviceId, payment: {beef, satoshis}, input}:
\* keys in insertion order, an undefined member is left out
JSONstringify(p) ==
    <<"{">>
      \o (IF p.serviceId = "" THEN <<>> ELSE <<"serviceId:", p.serviceId>>)
      \o (IF p.payment.present
          THEN <<"payment:", "{", "beef:", p.payment.beef,
                 "satoshis:", ToString(p.payment.satoshis), "}">>
          ELSE <<>>)
      \o (IF p.input = "" THEN <<>> ELSE <<"input:", p.input>>)
      \o <<"}">>

\* const preimage = to + type + JSON.stringify(payload)
Preimage(to, type, payload) == to \o type \o JSONstringify(payload)

NoSignature == [kind |-> "none", signer |-> <<>>, pre |-> <<>>]

\* a signature field that is not the hex of a DER signature
GarbageSignature == [kind |-> "garbage", signer |-> <<>>, pre |-> <<>>]

signRelayMessage(privKey, to, type, payload) ==
    [kind |-> "ecdsa", signer |-> privKey, pre |-> Preimage(to, type, payload)]

\* slip: the hash covers to + type only, the payload is left out of the preimage
verifyRelaySignature_headerOnly(fromKey, to, type, payload, signature) ==
    IF signature.kind = "none" THEN FALSE
    ELSE IF signature.kind = "garbage" THEN FALSE
    ELSE /\ signature.signer = fromKey
         /\ Len(signature.pre) >= Len(to \o type)
         /\ SubSeq(signature.pre, 1, Len(to \o type)) = to \o type

\* { valid: pubKey.verify(msgHash, sig) }, { valid: false } on a missing or
\* malformed signature
verifyRelaySignature(fromKey, to, type, payload, signature) ==
    IF signature.kind = "none" THEN FALSE
    ELSE IF signature.kind = "garbage" THEN FALSE
    ELSE signature.signer = fromKey /\ signature.pre = Preimage(to, type, payload)

(***************************************************************************)
(* Payment verifier                                                        *)
(***************************************************************************)
\* a locking script: std = the five chunks of a standard P2PKH with a
\* 20-byte push
P2PKHOut(h, sats) == [std |-> TRUE, hash |-> h, satoshis |-> sats]

OpReturnOut == [std |-> FALSE, hash |-> "", satoshis |-> 0]

Tx(id, outs) == [id |-> id, outputs |-> outs]

\* what the base64 text of payment.beef decodes to: b64 atob succeeds, len
\* byte length, atomic Transaction.fromAtomicBEEF parses (subject: its
\* transaction), beef Beef.fromBinary parses (txs: its transactions)
Bundle(b64, len, atomic, beef, subject, txs) ==
    [b64 |-> b64, len |-> len, atomic |-> atomic, beef |-> beef,
     subject |-> subject, txs |-> txs]

\* nothing was encoded yet
NoBundle == Bundle(FALSE, 0, FALSE, FALSE, 0, <<>>)

\* "built" is the text buildDirectPayment returned last; "beefChain" parses
\* only as a plain BEEF whose last transaction pays us 49; "emptyBeef" is a
\* plain BEEF header that lists no transaction; "short" is under 20 bytes;
\* "junk" is 64 bytes that parse as neither; "payDust" pays us 4 in output 0
\* and 50 in output 1 of one transaction; any other text is not base64
BundleOf(id) ==
    CASE id = "built" -> wire
      [] id = "beefChain" ->
             Bundle(TRUE, 300, FALSE, TRUE, 0,
                    <<Tx(104, <<P2PKHOut(OurHash160, 500)>>),
                      Tx(105, <<P2PKHOut(OtherHash160, 300), P2PKHOut(OurHash160, 49)>>)>>)
      [] id = "emptyBeef" -> Bundle(TRUE, 20, FALSE, TRUE, 0, <<>>)
      [] id = "short" -> Bundle(TRUE, 10, FALSE, FALSE, 0, <<>>)
      [] id = "junk" -> Bundle(TRUE, 64, FALSE, FALSE, 0, <<>>)
      [] id = "pay50" ->
             Bundle(TRUE, 200, TRUE, TRUE, 1,
                    <<Tx(101, <<P2PKHOut(OurHash160, 50), P2PKHOut(OtherHash160, 137)>>)>>)
      [] id = "payOther" ->
             Bundle(TRUE, 200, TRUE, TRUE, 1,
                    <<Tx(102, <<P2PKHOut(OtherHash160, 50)>>)>>)
      [] id = "pay4" ->
             Bundle(TRUE, 200, TRUE, TRUE, 1,
                    <<Tx(103, <<OpReturnOut, P2PKHOut(OurHash160, 4)>>)>>)
      [] id = "payDust" ->
             Bundle(TRUE, 200, TRUE, TRUE, 1,
                    <<Tx(106, <<P2PKHOut(OurHash160, 4), P2PKHOut(OurHash160, 50)>>)>>)
      [] OTHER -> Bundle(FALSE, 0, FALSE, FALSE, 0, <<>>)

NoResult ==
    [accepted |-> FALSE, txid |-> 0, satoshis |-> 0, outputIndex |-> -1,
     walletAccepted |-> FALSE, error |-> "", threw |-> FALSE]

\* slip: the verdict is read off the ledger, a payment counts as accepted
\* only once its record is in the file
Verdict_fromLedger(res, l) ==
    [result |-> [res EXCEPT !.accepted =
                     res.accepted /\ \E i \in 1..Len(l) : l[i].txid = res.txid],
     ledger |-> l]

Verdict(res, l) == [result |-> res, ledger |-> l]

Rejection(l, err) == Verdict([NoResult EXCEPT !.error = err], l)

LedgerEntry(txid, vout, sats, beef, serviceId, from) ==
    [txid |-> txid, vout |-> vout, satoshis |-> sats, beefBase64 |-> beef,
     serviceId |-> serviceId, from |-> from]

\* the first output that is a standard P2PKH to recipientHash160 (1-based), 0 if none
PaymentOutput(tx, recipientHash160) ==
    LET matches == {i \in 1..Len(tx.outputs) :
                       tx.outputs[i].std /\ tx.outputs[i].hash = recipientHash160}
    IN  IF matches = {} THEN 0
        ELSE CHOOSE i \in matches : \A j \in matches : i <= j

\* slip: fs.writeFileSync in place of fs.appendFileSync: the file is rewritten
AppendPayment_rewrite(l, entry, appendOk) == IF appendOk THEN <<entry>> ELSE l

\* fs.appendFileSync of the entry; a failure is caught and reported in error
AppendPayment(l, entry, appendOk) == IF appendOk THEN Append(l, entry) ELSE l

\* slip: the claimed amount is compared before the payment object is looked at
ClaimCheck_amountFirst(payment, minSats) ==
    IF payment.satoshis < minSats THEN "underpaid"
    ELSE IF ~payment.present \/ payment.beef = "" \/ payment.satoshis = 0
    THEN "no payment"
    ELSE ""

\* if (!payment || !payment.beef || !payment.satoshis) 'no payment';
\* if (payment.satoshis < minSats) 'underpaid: ...'; "" when both pass
ClaimCheck(payment, minSats) ==
    IF ~payment.present \/ payment.beef = "" \/ payment.satoshis = 0
    THEN "no payment"
    ELSE IF payment.satoshis < minSats THEN "underpaid"
    ELSE ""

\* slip: <= in place of <, a payment of exactly the minimum is turned away
OutputUnderpaid_inclusive(paymentSats, minSats) == paymentSats <= minSats

\* if (paymentSats < minSats) 'output underpaid: ...'
OutputUnderpaid(paymentSats, minSats) == paymentSats < minSats

verifyAndAcceptPayment(l, payment, minSats, senderKey, serviceId, recipientHash160, appendOk) ==
    IF ClaimCheck(payment, minSats) # ""
    THEN Rejection(l, ClaimCheck(payment, minSats))
    ELSE LET b == BundleOf(payment.beef) IN
        IF ~b.b64 THEN Rejection(l, "invalid base64")
        ELSE IF b.len < 20 THEN Rejection(l, "invalid beef length")
        ELSE IF ~b.atomic /\ ~b.beef THEN Rejection(l, "beef parse failed")
        ELSE IF ~b.atomic /\ b.txs = <<>>
        THEN Verdict([NoResult EXCEPT !.threw = TRUE], l)
        ELSE LET paymentTx == IF b.atomic THEN b.txs[b.subject] ELSE b.txs[Len(b.txs)]
                 i == PaymentOutput(paymentTx, recipientHash160)
             IN  IF i = 0 THEN Rejection(l, "no matching output")
                 ELSE IF OutputUnderpaid(paymentTx.outputs[i].satoshis, minSats)
                 THEN Rejection(l, "output underpaid")
                 ELSE Verdict(
                     [accepted |-> TRUE, txid |-> paymentTx.id,
                      satoshis |-> paymentTx.outputs[i].satoshis,
                      outputIndex |-> i - 1, walletAccepted |-> appendOk,
                      error |-> IF appendOk THEN "" ELSE "payment store failed",
                      threw |-> FALSE],
                     AppendPayment(l,
                         LedgerEntry(paymentTx.id, i - 1, paymentTx.outputs[i].satoshis,
                                     payment.beef, serviceId, senderKey),
                         appendOk))

(***************************************************************************)
(* Service dispatcher: processMessage and the service handlers             *)
(* A handler yields the set of (ledger, engine state, record of the run)   *)
(* it can leave; threw: an exception left processMessage.                  *)
(***************************************************************************)
TypeServiceRequest == <<"service-request">>

TypePing == <<"ping">>

TypePong == <<"pong">>

TypeServiceResponse == <<"service-response">>

TypeOther == <<"gossip">>

Message(id, from, to, type, payload, signature) ==
    [id |-> id, from |-> from, to |-> to, type |-> type,
     payload |-> payload, signature |-> signature]

NoMsg ==
    [kind |-> "none", id |-> 0, type |-> <<>>, serviceId |-> "", tampered |-> FALSE,
     sigValid |-> "null", verifierCalls |-> <<>>, accepted |-> FALSE,
     action |-> "", reason |-> "", ack |-> FALSE,
     response |-> "none", signed |-> FALSE, responseReason |-> "",
     responseTxid |-> 0, responseSats |-> 0, paymentTxid |-> 0,
     satoshisReceived |-> 0, threw |-> FALSE]

Handled(l, e, m) == [ledger |-> l, eng |-> e, msg |-> m]

\* an exception leaves the handler: no result, what was written stays
Raise(l, e, m) == Handled(l, e, [m EXCEPT !.threw = TRUE])

\* slip: the rejection is returned without the response being sent
reject_silent(l, e, m, shortReason) ==
    {Handled(l, e, [m EXCEPT !.action = "rejected", !.reason = shortReason,
                             !.ack = TRUE])}

\* reject(reason, shortReason): sign and send the 'rejected' response whose
\* reason text carries the cause, then return action 'rejected' with the
\* short reason; the relay send may throw
reject(l, e, m, shortReason) ==
    {Raise(l, e, m),
     Handled(l, e, [m EXCEPT !.action = "rejected", !.reason = shortReason,
                             !.ack = TRUE, !.response = "rejected",
                             !.signed = TRUE, !.responseReason = shortReason])}

\* sign and send the response with status, paymentTxid and satoshisReceived,
\* then return action = status; the relay send may throw
respond(l, e, m, status, payResult) ==
    {Raise(l, e, m),
     Handled(l, e, [m EXCEPT !.action = status, !.ack = TRUE,
                             !.response = status, !.signed = TRUE,
                             !.responseTxid = payResult.txid,
                             !.responseSats = payResult.satoshis,
                             !.paymentTxid = payResult.txid,
                             !.satoshisReceived = payResult.satoshis])}

\* the record of the verifier's call and verdict
Verified(m, minSats, recipientHash160, res) ==
    [m EXCEPT !.verifierCalls = Append(m.verifierCalls,
                                    [minSats |-> minSats, recipient |-> recipientHash160]),
              !.accepted = res.accepted,
              !.paymentTxid = res.txid,
              !.satoshisReceived = res.satoshis]

\* "Payment verification via shared helper": verifyAndAcceptPayment with the
\* handler's PRICE and our hash160; one outcome per answer of the file system
PaymentCheck(l, m, msg, serviceId, PRICE) ==
    {LET v == verifyAndAcceptPayment(l, msg.payload.payment, PRICE, msg.from,
                                     serviceId, OurHash160, appendOk)
     IN  [ledger |-> v.ledger, result |-> v.result,
          msg |-> Verified(m, PRICE, OurHash160, v.result)] :
         appendOk \in BOOLEAN}

\* if (!payResult.accepted) return reject(..., payResult.error)
Refused(c, e) ==
    IF c.result.threw THEN {Raise(c.ledger, e, c.msg)}
    ELSE reject(c.ledger, e, c.msg, c.result.error)

\* a service whose operation cannot fail: status 'fulfilled'
ServeFulfilled(l, e, m, payResult) == respond(l, e, m, "fulfilled", payResult)

\* a service whose operation may report an error: status 'partial'
ServeOrPartial(l, e, m, payResult) ==
    respond(l, e, m, "fulfilled", payResult) \cup respond(l, e, m, "partial", payResult)

\* slip: the joke is served without the payment check
processJokeRequest_unverified(l, e, m, msg) == ServeFulfilled(l, e, m, NoResult)

processJokeRequest(l, e, m, msg) ==
    UNION {IF c.result.accepted THEN ServeFulfilled(c.ledger, e, c.msg, c.result)
                ELSE Refused(c, e) :
                   c \in PaymentCheck(l, m, msg, "tell-joke", 5)}

processCodeReview(l, e, m, msg) ==
    UNION {IF c.result.accepted THEN ServeFulfilled(c.ledger, e, c.msg, c.result)
                ELSE Refused(c, e) :
                   c \in PaymentCheck(l, m, msg, "code-review", 50)}

\* the research is queued for the agent; no response is sent here
ServeQueued(l, e, m, payResult) ==
    {Handled(l, e, [m EXCEPT !.action = "queued", !.ack = TRUE,
                             !.paymentTxid = payResult.txid,
                             !.satoshisReceived = payResult.satoshis])}

processWebResearch(l, e, m, msg) ==
    IF msg.payload.input # "valid" THEN reject(l, e, m, "no query")
    ELSE UNION {IF c.result.accepted THEN ServeQueued(c.ledger, e, c.msg, c.result)
                ELSE Refused(c, e) :
                   c \in PaymentCheck(l, m, msg, "web-research", 50)}

processTranslate(l, e, m, msg) ==
    IF msg.payload.input # "valid" THEN reject(l, e, m, "no text")
    ELSE UNION {IF c.result.accepted THEN ServeOrPartial(c.ledger, e, c.msg, c.result)
                ELSE Refused(c, e) :
                   c \in PaymentCheck(l, m, msg, "translate", 20)}

processApiProxy(l, e, m, msg) ==
    IF msg.payload.input # "valid" THEN reject(l, e, m, "no api")
    ELSE UNION {IF c.result.accepted THEN ServeOrPartial(c.ledger, e, c.msg, c.result)
                ELSE Refused(c, e) :
                   c \in PaymentCheck(l, m, msg, "api-proxy", 15)}

ROULETTE_MIN_BET == 10

ROULETTE_MAX_BET == 1000

\* evaluateRouletteBet: an even-money bet pays 2x, a single number 36x (the
\* bets delivered are a colour and a number)
RouletteMultipliers == {2, 36}

\* spin the wheel; a winning bet is paid through buildDirectPayment, whose
\* throw is caught (payoutError)
ServeRoulette(l, e, m, payResult) ==
    LET actualBetAmount == Min(payResult.satoshis, ROULETTE_MAX_BET)
    IN  respond(l, e, m, "fulfilled", payResult)
        \cup UNION {respond(l, r, m, "fulfilled", payResult) :
                        r \in UNION {buildDirectPayment(e, actualBetAmount * multiplier) :
                                         multiplier \in RouletteMultipliers}}

processRoulette(l, e, m, msg) ==
    LET betAmount == msg.payload.payment.satoshis
    IN  IF msg.payload.input # "valid" THEN reject(l, e, m, "invalid bet")
        ELSE IF betAmount > ROULETTE_MAX_BET THEN reject(l, e, m, "bet too high")
        ELSE UNION {IF c.result.accepted THEN ServeRoulette(c.ledger, e, c.msg, c.result)
                ELSE Refused(c, e) :
                   c \in PaymentCheck(l, m, msg, "roulette", ROULETTE_MIN_BET)}

MEMORY_STORE_PRICE == 10

\* saveMemoryStore may throw after the payment is recorded
ServeMemoryStore(l, e, m, payResult) ==
    {Raise(l, e, m)} \cup ServeOrPartial(l, e, m, payResult)

processMemoryStore(l, e, m, msg) ==
    IF msg.payload.input # "valid" THEN reject(l, e, m, "invalid operation")
    ELSE UNION {IF c.result.accepted THEN ServeMemoryStore(c.ledger, e, c.msg, c.result)
                ELSE Refused(c, e) :
                   c \in PaymentCheck(l, m, msg, "memory-store", MEMORY_STORE_PRICE)}

Unhandled(l, e, m) == {Handled(l, e, [m EXCEPT !.action = "unhandled", !.ack = FALSE])}

\* slip: the signature is enforced for every type, an unsigned ping is refused
SignatureEnforced_all(type) == TRUE

\* the message types whose signature is enforced
SignatureEnforced(type) == type = TypeServiceRequest

processMessage(l, e, msg) ==
    LET sigCheck == IF msg.signature.kind # "none"
                    THEN (IF verifyRelaySignature(msg.from, msg.to, msg.type,
                                                  msg.payload, msg.signature)
                          THEN "true" ELSE "false")
                    ELSE "null"
        serviceId == msg.payload.serviceId
        m == [NoMsg EXCEPT !.kind = "msg", !.id = msg.id, !.type = msg.type,
                           !.serviceId = serviceId, !.sigValid = sigCheck]
    IN  IF SignatureEnforced(msg.type) /\ sigCheck # "true"
        THEN {Handled(l, e, [m EXCEPT !.action = "rejected",
                                      !.reason = "invalid-signature", !.ack = TRUE])}
        ELSE IF msg.type = TypePing
        THEN {Raise(l, e, m),
              Handled(l, e, [m EXCEPT !.action = "replied-pong", !.ack = TRUE,
                                      !.response = "pong", !.signed = TRUE])}
        ELSE IF msg.type = TypeServiceRequest
        THEN (CASE serviceId = "tell-joke" -> processJokeRequest(l, e, m, msg)
                [] serviceId = "code-review" -> processCodeReview(l, e, m, msg)
                [] serviceId = "web-research" -> processWebResearch(l, e, m, msg)
                [] serviceId = "translate" -> processTranslate(l, e, m, msg)
                [] serviceId = "api-proxy" -> processApiProxy(l, e, m, msg)
                [] serviceId = "roulette" -> processRoulette(l, e, m, msg)
                [] serviceId = "memory-store" -> processMemoryStore(l, e, m, msg)
                [] OTHER -> Unhandled(l, e, m))
        ELSE IF msg.type = TypePong \/ msg.type = TypeServiceResponse
        THEN {Handled(l, e, [m EXCEPT !.action = "received", !.ack = TRUE])}
        ELSE Unhandled(l, e, m)

(***************************************************************************)
(* The relay delivers a message                                            *)
(***************************************************************************)
ServiceIds ==
    {"tell-joke", "code-review", "web-research", "translate", "api-proxy",
     "roulette", "memory-store", "horoscope"}

Payments ==
    {NoPayment, Payment("pay50", 50), Payment("pay50", 4), Payment("pay50", 2000),
     Payment("payOther", 50), Payment("pay4", 50)}

Payload(sid, pay, input) == [serviceId |-> sid, payment |-> pay, input |-> input]

\* well-formed requests with every payment, and paid requests whose input
\* fails the handler's validation
RequestPayloads ==
    {Payload(sid, pay, "valid") : sid \in ServiceIds, pay \in Payments}
        \cup {Payload(sid, Payment("pay50", 50), "empty") : sid \in ServiceIds}

TextPayload == Payload("", NoPayment, "hello")

\* the payloads a sender may have signed before the payload was altered in
\* transit into p
SignedBefore(p) ==
    {[p EXCEPT !.payment = Payment("pay4", 50)],
     [p EXCEPT !.input = "empty"],
     [p EXCEPT !.serviceId = "horoscope"]} \ {p}

\* the signature fields a delivered message from Peer can carry, each with
\* the payload that was signed; the badly signed ones are delivered for the
\* requests that would be served if the signature were not looked at
Signatures(type, p) ==
    {[sig |-> signRelayMessage(Peer, Us, type, p), signed |-> p]}
        \cup (IF type = TypeServiceRequest
                  /\ ~(p.input = "valid" /\ p.payment = Payment("pay50", 50))
              THEN {}
              ELSE {[sig |-> signRelayMessage(Mallory, Us, type, p), signed |-> p],
                    [sig |-> NoSignature, signed |-> p],
                    [sig |-> GarbageSignature, signed |-> p]}
                       \cup {[sig |-> signRelayMessage(Peer, Us, type, q), signed |-> q] :
                                 q \in SignedBefore(p)})

Inbound ==
    {[type |-> TypeServiceRequest, payload |-> p] : p \in RequestPayloads}
        \cup {[type |-> t, payload |-> TextPayload] :
                  t \in {TypePing, TypePong, TypeServiceResponse, TypeOther}}

\* the relay hands one of the messages to processMessage
Relay(inbound) ==
    /\ nextTxid <= MaxTx
    /\ Len(ledger) < MaxLedger
    /\ \E in \in inbound : \E s \in Signatures(in.type, in.payload) :
           LET msg == Message(1, Peer, Us, in.type, in.payload, s.sig)
           IN  \E h \in processMessage(ledger, Cur, msg) :
                   /\ ledger' = h.ledger
                   /\ Apply(h.eng)
                   /\ lastMsg' = [h.msg EXCEPT !.tampered = s.signed # in.payload]
    /\ UNCHANGED <<network, allowSynthetic, wire, lastVerify,
                 invocations, inflight, lastPoll, listener, call, lineage, merkle, auth, budget, importer, background>>

Deliver == Relay(Inbound)

\* the messages delivered to an agent whose wallet holds an output: a ping,
\* a paid joke request and a roulette bet, whose winnings are paid out
FundedInbound ==
    {[type |-> TypePing, payload |-> TextPayload],
     [type |-> TypeServiceRequest,
      payload |-> Payload("tell-joke", Payment("pay50", 50), "valid")],
     [type |-> TypeServiceRequest,
      payload |-> Payload("roulette", Payment("pay50", 50), "valid")]}

DeliverFunded == Relay(FundedInbound)

(***************************************************************************)
(* Two CLI processes inside buildDirectPayment                             *)
(* A process reads latest-change.json, and writes it after the awaits of   *)
(* the resolution and of tx.sign(); the other process may run in between.  *)
(***************************************************************************)
Procs == {1, 2}

Idle ==
    [pc |-> "idle", sats |-> 0, loaded |-> Absent, txid |-> 0,
     saveCall |-> NoSave, writeOk |-> FALSE]

\* the amount the racing processes pay
RaceSats == {10}

\* the read of the stored change: what the file held is kept by the process
payLoad ==
    /\ nextTxid <= MaxTx
    /\ \E p \in Procs, sats \in RaceSats :
           /\ invocations[p].pc # "loaded"
           /\ invocations' =
                  [invocations EXCEPT ![p] =
                      [Idle EXCEPT !.pc = "loaded", !.sats = sats, !.loaded = frontier]]
    /\ UNCHANGED <<network, allowSynthetic, frontier, indexer, spends, nextTxid, lastOp,
                   ledger, lastMsg, wire, lastVerify, inflight, lastPoll, listener, call, lineage, merkle, auth, budget, importer, background>>

\* the rest of the build, from what the process read: the source is the
\* stored change it read, or is asked of the indexer now; then the change
\* is saved over whatever the file holds
payResume(loaded, sats) ==
    IF PayUsesStored(loaded, sats)
    THEN PayBuild(Cur, sats, <<Attempt(1, "ok")>>, 0, "stored-beef",
                  Outpoint(loaded), loaded.satoshis)
    ELSE PayIndexerTier(Cur, sats,
                        IF loaded.state = "corrupt" THEN "failed" ELSE "unavailable")

payFinish ==
    /\ nextTxid <= MaxTx
    /\ \E p \in Procs :
           /\ invocations[p].pc = "loaded"
           /\ \E r \in payResume(invocations[p].loaded, invocations[p].sats) :
                  /\ Apply(r)
                  /\ invocations' =
                         [invocations EXCEPT ![p] =
                             [@ EXCEPT !.pc = "done", !.txid = r.lastOp.txid,
                                       !.saveCall = r.lastOp.saveCall,
                                       !.writeOk = r.lastOp.writeOk]]
    /\ UNCHANGED <<network, allowSynthetic, ledger, lastMsg, wire, lastVerify,
                   inflight, lastPoll, listener, call, lineage, merkle, auth, budget, importer, background>>

(***************************************************************************)
(* connect: ws.on('message', async (data) => { ... })                      *)
(* The callback runs up to its first await on the network (the relay send  *)
(* of the handler or the ack) and is resumed when the relay answers; the   *)
(* socket may emit the next 'message' in between.  The verifier and its    *)
(* append run before any such await.  A message left unhandled is not      *)
(* acked, its callback awaits nothing on the network.                      *)
(***************************************************************************)
\* the messages the subscription pushes
ConnectInbound ==
    {[type |-> TypePing, payload |-> TextPayload],
     [type |-> TypeOther, payload |-> TextPayload],
     [type |-> TypeServiceRequest,
      payload |-> Payload("tell-joke", Payment("pay50", 50), "valid")],
     [type |-> TypeServiceRequest,
      payload |-> Payload("roulette", Payment("pay50", 50), "valid")]}

\* signed by the sender, or not signed
ConnectSignatures(type, p) ==
    {[sig |-> signRelayMessage(Peer, Us, type, p), signed |-> p],
     [sig |-> NoSignature, signed |-> p]}

\* let reconnectDelay = 1000
ReconnectInitialMs == 1000

\* Math.min(reconnectDelay * 2, 30000)
ReconnectCapMs == 30000

\* cmdConnect after connect() was first called: the socket is being opened.
\* waited: the delay last handed to setTimeout; failed: a callback's failure
\* was caught; servedAfter: a callback ran to its end after such a failure
Listening ==
    [alive |-> TRUE, phase |-> "connecting", reconnectDelay |-> ReconnectInitialMs,
     waited |-> 0, failed |-> FALSE, servedAfter |-> FALSE]

\* slip: the failure is not caught; the rejection of the callback's promise
\* is unhandled and ends the process
Caught_rethrown(l) == [l EXCEPT !.alive = FALSE]

\* catch (err) { console.error(process-error) } and
\* catch (ackErr) { console.error(ack-error) }: logged, the callback returns
Caught(l) == [l EXCEPT !.failed = TRUE]

\* the callback ran to its end without a failure
Completed(l) == [l EXCEPT !.servedAfter = @ \/ l.failed]

\* the callback starts.  JSON.parse(data.toString()) throws on a frame that
\* is not JSON, and processMessage on an envelope without a message: both
\* are caught at once.  Otherwise processMessage runs up to the await
wsCallback(inbound) ==
    /\ listener.alive
    /\ listener.phase = "open"
    /\ nextTxid <= MaxTx
    /\ Len(ledger) < MaxLedger
    /\ \/ /\ listener' = Caught(listener)
          /\ UNCHANGED <<ledger, lastMsg, inflight>>
       \/ \E slot \in Procs, in \in inbound :
          \E s \in ConnectSignatures(in.type, in.payload) :
           LET msg == Message(slot, Peer, Us, in.type, in.payload, s.sig)
           IN  /\ \A run \in inflight : run.slot # slot
               /\ \E h \in processMessage(ledger, Cur, msg) :
                      /\ ledger' = h.ledger
                      /\ IF h.msg.action = "unhandled"
                         THEN /\ lastMsg' = [h.msg EXCEPT !.tampered = s.signed # in.payload]
                              /\ inflight' = inflight
                              /\ listener' = Completed(listener)
                         ELSE /\ lastMsg' = lastMsg
                              /\ inflight' = inflight \cup
                                     {[slot |-> slot, eng |-> h.eng,
                                       msg |-> [h.msg EXCEPT
                                                   !.tampered = s.signed # in.payload]]}
                              /\ listener' = listener
    /\ UNCHANGED <<network, allowSynthetic, frontier, indexer, spends, nextTxid, lastOp,
                   wire, lastVerify, invocations, lastPoll, call, lineage, merkle, auth, budget, importer, background>>

wsMessage == wsCallback(ConnectInbound)

\* the relay answers and the callback runs to its end: an exception of the
\* handler is caught; otherwise the result is printed and the ack sent,
\* whose failure is caught.  The wallet of the listener holds no output, so
\* a roulette payout throws inside the handler and writes no file.
wsSettle ==
    /\ listener.alive
    /\ \E run \in inflight :
           /\ inflight' = inflight \ {run}
           /\ lastMsg' = run.msg
           /\ Apply(run.eng)
           /\ IF run.msg.threw
              THEN listener' = Caught(listener)
              ELSE \E ackOk \in BOOLEAN :
                       listener' = IF ackOk THEN Completed(listener)
                                   ELSE Caught(listener)
    /\ UNCHANGED <<network, allowSynthetic, ledger, wire, lastVerify, invocations,
                   lastPoll, call, lineage, merkle, auth, budget, importer, background>>

\* slip: the delay keeps doubling
Backoff_uncapped(reconnectDelay) == reconnectDelay * 2

\* reconnectDelay = Math.min(reconnectDelay * 2, 30000)
Backoff(reconnectDelay) == Min(reconnectDelay * 2, ReconnectCapMs)

\* ws.on('open'): reconnectDelay = 1000
wsOpen ==
    /\ listener.alive
    /\ listener.phase = "connecting"
    /\ listener' = [listener EXCEPT !.phase = "open",
                                    !.reconnectDelay = ReconnectInitialMs]
    /\ UNCHANGED <<network, allowSynthetic, frontier, indexer, spends, nextTxid, lastOp,
                   ledger, lastMsg, wire, lastVerify, invocations, inflight, lastPoll, call, lineage, merkle, auth, budget, importer, background>>

\* ws.on('close'), of an open socket or of one that never opened:
\* setTimeout(connect, reconnectDelay), then the delay is doubled
wsClose ==
    /\ listener.alive
    /\ listener.phase \in {"connecting", "open"}
    /\ listener' = [listener EXCEPT !.phase = "waiting",
                                    !.waited = listener.reconnectDelay,
                                    !.reconnectDelay = Backoff(listener.reconnectDelay)]
    /\ UNCHANGED <<network, allowSynthetic, frontier, indexer, spends, nextTxid, lastOp,
                   ledger, lastMsg, wire, lastVerify, invocations, inflight, lastPoll, call, lineage, merkle, auth, budget, importer, background>>

\* the timer fires: connect() makes a new socket
reconnect ==
    /\ listener.alive
    /\ listener.phase = "waiting"
    /\ listener' = [listener EXCEPT !.phase = "connecting"]
    /\ UNCHANGED <<network, allowSynthetic, frontier, indexer, spends, nextTxid, lastOp,
                   ledger, lastMsg, wire, lastVerify, invocations, inflight, lastPoll, call, lineage, merkle, auth, budget, importer, background>>

\* the messages pushed to the listener: a ping, a paid joke request, and a
\* joke request whose bundle makes the handler throw
ListenerInbound ==
    {[type |-> TypePing, payload |-> TextPayload],
     [type |-> TypeServiceRequest,
      payload |-> Payload("tell-joke", Payment("pay50", 50), "valid")],
     [type |-> TypeServiceRequest,
      payload |-> Payload("tell-joke", Payment("emptyBeef", 50), "valid")]}

wsListen == wsCallback(ListenerInbound)

(***************************************************************************)
(* The ancestor chain kept with the frontier                               *)
(* A transaction object with its links is the sequence <<tx, the source    *)
(* transaction of its first input, that one's source transaction, ...>>;   *)
(* every transaction the engine builds has one input.  A merkle path is    *)
(* the byte sequence of its binary form, <<>> when there is none.  What    *)
(* follows is buildDirectPayment seen from the chain; the amounts are      *)
(* those of the engine above.                                              *)
(***************************************************************************)
\* serializeSourceChain: for (let depth = 0; depth < 15; depth++)
SerializeDepth == 15

\* the walk of the indexer tier: for (let depth = 0; depth < 10; depth++)
WalkDepth == 10

Node(id, merklePath) == [id |-> id, merklePath |-> merklePath]

\* Array.from(bytes).map(b => b.toString(16).padStart(2, '0')).join('')
RECURSIVE toHexString(_)
toHexString(bytes) ==
    IF bytes = <<>> THEN <<>>
    ELSE <<Head(bytes) \div 16, Head(bytes) % 16>> \o toHexString(Tail(bytes))

\* hex.match(/.{2}/g).map(h => parseInt(h, 16))
RECURSIVE parseHexString(_)
parseHexString(hex) ==
    IF Len(hex) < 2 THEN <<>>
    ELSE <<16 * hex[1] + hex[2]>> \o parseHexString(SubSeq(hex, 3, Len(hex)))

\* tx.toHex(): the transaction alone, without the transactions linked to
\* its inputs and without its merkle path
toHex(node) == [hexOf |-> node.id]

\* Transaction.fromHex(hex)
fromHex(txHex) == Node(txHex.hexOf, <<>>)

\* serializeSourceChain(tx): an entry per linked ancestor, child before
\* parent, at most 15 of them
serializeSourceChain(tx) ==
    [i \in 1..Min(Len(tx) - 1, SerializeDepth) |->
        [txHex |-> toHex(tx[i + 1]), txid |-> tx[i + 1].id,
         merklePathHex |-> toHexString(tx[i + 1].merklePath)]]

NoStored == [saved |-> FALSE, txHex |-> toHex(Node(0, <<>>)), txid |-> 0, sourceChain |-> <<>>]

\* what saveChangeBeef writes of the transaction
StoredChange(tx) ==
    [saved |-> TRUE, txHex |-> toHex(tx[1]), txid |-> tx[1].id,
     sourceChain |-> serializeSourceChain(tx)]

\* slip: the merkle paths are not put back
reconstructFromChain_unproven(storedChange) ==
    <<fromHex(storedChange.txHex)>>
        \o [i \in 1..Len(storedChange.sourceChain) |->
               fromHex(storedChange.sourceChain[i].txHex)]

\* reconstructFromChain(storedChange)
reconstructFromChain(storedChange) ==
    <<fromHex(storedChange.txHex)>>
        \o [i \in 1..Len(storedChange.sourceChain) |->
               LET entry == storedChange.sourceChain[i]
               IN  [fromHex(entry.txHex) EXCEPT
                       !.merklePath = IF entry.merklePathHex # <<>>
                                      THEN parseHexString(entry.merklePathHex)
                                      ELSE <<>>]]

\* the transactions on chain behind an output the indexer lists: Ancestor(0)
\* holds the output, Ancestor(d + 1) is the source of Ancestor(d)'s first input
Ancestor(depth) == 100 + depth

\* the merkle path the indexer's proof gives for a confirmed transaction
ProofOf(txid) == <<254, 7, txid>>

\* the walk back from the source transaction: unconfirmed transactions up to
\* the first confirmed one, Ancestor(confirmedAt); the request named by
\* failKind fails at depth failAt (info: /tx/<id>, proof: /tx/<id>/proof/tsc,
\* parent: /tx/<parent>/hex).  After 10 rounds the walk ends on a transaction
\* it has linked and not looked at.
RECURSIVE WalkBack(_, _, _, _)
WalkBack(depth, confirmedAt, failAt, failKind) ==
    IF depth >= WalkDepth THEN <<Node(Ancestor(depth), <<>>)>>
    ELSE IF failAt = depth /\ failKind = "info" THEN <<Node(Ancestor(depth), <<>>)>>
    ELSE IF depth = confirmedAt
    THEN <<Node(Ancestor(depth),
                IF failAt = depth /\ failKind = "proof" THEN <<>>
                ELSE ProofOf(Ancestor(depth)))>>
    ELSE IF failAt = depth /\ failKind = "parent" THEN <<Node(Ancestor(depth), <<>>)>>
    ELSE <<Node(Ancestor(depth), <<>>)>>
             \o WalkBack(depth + 1, confirmedAt, failAt, failKind)

\* beef.mergeTransaction(tx): the transaction and the transactions linked
\* behind it, down to the first that carries a merkle path
RECURSIVE mergeTransaction(_)
mergeTransaction(tx) ==
    IF tx = <<>> THEN <<>>
    ELSE IF Head(tx).merklePath # <<>> THEN <<Head(tx)>>
    ELSE <<Head(tx)>> \o mergeTransaction(Tail(tx))

NoLineage == [builds |-> 0, tier |-> "", tx |-> <<>>, bundle |-> <<>>, stored |-> NoStored]

\* the new transaction spends sourceTx; it is signed, bundled and saved
Chained(l, tier, sourceTx) ==
    LET tx == <<Node(l.builds + 1, <<>>)>> \o sourceTx
    IN  [builds |-> l.builds + 1, tier |-> tier, tx |-> tx,
         bundle |-> mergeTransaction(tx), stored |-> StoredChange(tx)]

\* how deep behind the listed output the first confirmed transaction is
ConfirmedDepths == {0, 1, 2, 10}

\* buildDirectPayment from an output of the indexer
payFromIndexer ==
    /\ lineage.builds < MaxBuilds
    /\ \E confirmedAt \in ConfirmedDepths, failAt \in 0..3,
          failKind \in {"none", "info", "proof", "parent"} :
           lineage' = Chained(lineage, "woc",
                              WalkBack(0, confirmedAt, failAt, failKind))
    /\ UNCHANGED <<network, allowSynthetic, frontier, indexer, spends, nextTxid, lastOp,
                   ledger, lastMsg, wire, lastVerify, invocations, inflight, lastPoll,
                   listener, call, merkle, auth, budget, importer, background>>

\* buildDirectPayment from the stored change
payFromStored ==
    /\ lineage.builds < MaxBuilds
    /\ lineage.stored.saved
    /\ lineage' = Chained(lineage, "stored", reconstructFromChain(lineage.stored))
    /\ UNCHANGED <<network, allowSynthetic, frontier, indexer, spends, nextTxid, lastOp,
                   ledger, lastMsg, wire, lastVerify, invocations, inflight, lastPoll,
                   listener, call, merkle, auth, budget, importer, background>>

(***************************************************************************)
(* buildMerklePathFromTSC: the indexer's proof as a MerklePath             *)
(***************************************************************************)
\* x ^ 1
Xor1(x) == IF x % 2 = 0 THEN x + 1 ELSE x - 1

\* x >> i
ShiftRight(x, i) == x \div Pow2(i)

\* the entry of the subject transaction
Leaf(offset, txid) == [offset |-> offset, hash |-> txid, txid |-> TRUE, duplicate |-> FALSE]

\* the entry of a sibling: { offset, duplicate: true } for '*', otherwise
\* { offset, hash: nodes[i] }, where nodes[i] is undefined past the end
Sibling(offset, nodes, i) ==
    IF i <= Len(nodes) /\ nodes[i] = "*"
    THEN [offset |-> offset, hash |-> "", txid |-> FALSE, duplicate |-> TRUE]
    ELSE [offset |-> offset,
          hash |-> IF i <= Len(nodes) THEN nodes[i] ELSE "undefined",
          txid |-> FALSE, duplicate |-> FALSE]

\* level0.sort((a, b) => a.offset - b.offset), for the two entries of level 0
SortByOffset(level) ==
    IF level[1].offset - level[2].offset > 0 THEN <<level[2], level[1]>> ELSE level

buildMerklePathFromTSC(txid, txIndex, nodes, blockHeight) ==
    LET treeHeight == Len(nodes)
        level0 == SortByOffset(<<Leaf(txIndex, txid), Sibling(Xor1(txIndex), nodes, 1)>>)
    IN  [blockHeight |-> blockHeight,
         path |-> <<level0>>
                      \o [k \in 1..Max(treeHeight - 1, 0) |->
                             <<Sibling(Xor1(ShiftRight(txIndex, k)), nodes, k + 1)>>]]

NoMerkle ==
    [built |-> FALSE, txid |-> "", txIndex |-> 0, nodes |-> <<>>, blockHeight |-> 0,
     merklePath |-> [blockHeight |-> 0, path |-> <<>>], again |-> FALSE,
     walk |-> [done |-> FALSE, caller |-> "", kind |-> "", length |-> 0, threw |-> FALSE,
               error |-> "", attached |-> FALSE, resolution |-> ""]]

\* what a proof names as a sibling: a hash, or '*' for a duplicated node
TscNodes == {"*", "aa", "bb"}

\* the sibling lists of the proofs: of a block with one transaction (no
\* sibling) up to a tree of height 3
TscProofs ==
    {<<>>} \cup {<<a>> : a \in TscNodes} \cup {<<a, b>> : a, b \in TscNodes}
        \cup {<<a, b, c>> : a, b, c \in TscNodes}

\* the walk attaches the proof of a confirmed transaction
attachProof ==
    /\ \E txIndex \in 0..7, nodes \in TscProofs, blockHeight \in {800000} :
           /\ txIndex < Pow2(Len(nodes))
           /\ merkle' = [built |-> TRUE, txid |-> "subject", txIndex |-> txIndex,
                         nodes |-> nodes, blockHeight |-> blockHeight,
                         merklePath |-> buildMerklePathFromTSC("subject", txIndex, nodes,
                                                               blockHeight),
                         again |-> FALSE, walk |-> NoMerkle.walk]
    /\ UNCHANGED <<network, allowSynthetic, frontier, indexer, spends, nextTxid, lastOp,
                   ledger, lastMsg, wire, lastVerify, invocations, inflight, lastPoll,
                   listener, call, lineage, auth, budget, importer, background>>

\* the same proof is fetched and built once more
attachProofAgain ==
    /\ merkle.built
    /\ merkle' = [merkle EXCEPT
                     !.merklePath = buildMerklePathFromTSC(merkle.txid, merkle.txIndex,
                                                           merkle.nodes, merkle.blockHeight),
                     !.again = TRUE]
    /\ UNCHANGED <<network, allowSynthetic, frontier, indexer, spends, nextTxid, lastOp,
                   ledger, lastMsg, wire, lastVerify, invocations, inflight, lastPoll,
                   listener, call, lineage, auth, budget, importer, background>>

\* what pd[0].nodes of the indexer's answer can be: an array, nothing at all
\* (the field is missing or null), or an object that is not an array
NodeKinds == {"array", "undefined", "object"}

\* pd[0] of the indexer's answer
TscProof(index, kind, nodes) == [index |-> index, kind |-> kind, nodes |-> nodes]

\* the proofs the indexer may answer with, well formed or not
TscAnswers ==
    {TscProof(0, kind, <<>>) : kind \in NodeKinds}
        \cup {TscProof(i, "array", <<a>>) : i \in 0..1, a \in TscNodes}
        \cup {TscProof(i, "array", <<a, b>>) : i \in 0..3, a, b \in TscNodes}

\* the call buildMerklePathFromTSC(curTxid, pd[0].index, pd[0].nodes, height):
\* nodes.length throws a TypeError when nodes is undefined or null; on an
\* object that is not an array nodes.length and nodes[0] are undefined, the
\* loop does not run and the path is that of an empty array
callBuildMerklePath(txid, proof, blockHeight) ==
    IF proof.kind = "undefined"
    THEN [threw |-> TRUE, error |-> "TypeError", returned |-> FALSE,
          merklePath |-> NoMerkle.merklePath]
    ELSE [threw |-> FALSE, error |-> "", returned |-> TRUE,
          merklePath |-> buildMerklePathFromTSC(txid, proof.index, proof.nodes, blockHeight)]

\* who walks back for the proof: buildDirectPayment calls it with no handler
\* around it, buildRealOverlayTransaction calls buildRealFundedTx inside
\* try { } catch (realErr) { } and goes on to its last resort
WalkCallers == {"buildDirectPayment", "buildRealFundedTx"}

\* what the resolution does after the walk
WalkOutcome(caller, threw) ==
    IF ~threw THEN "built"
    ELSE IF caller = "buildRealFundedTx" THEN "next-tier" ELSE "threw"

\* the walk reaches a confirmed transaction whose proof request answers 200
\* with a non-empty array: the proof is built and attached
walkProof ==
    /\ \E proof \in TscAnswers, caller \in WalkCallers :
           LET r == callBuildMerklePath("subject", proof, 800000)
           IN  merkle' = [NoMerkle EXCEPT
                             !.txid = "subject", !.txIndex = proof.index,
                             !.nodes = proof.nodes, !.blockHeight = 800000,
                             !.merklePath = r.merklePath,
                             !.walk = [done |-> TRUE, caller |-> caller, kind |-> proof.kind,
                                       length |-> Len(proof.nodes), threw |-> r.threw,
                                       error |-> r.error, attached |-> r.returned,
                                       resolution |-> WalkOutcome(caller, r.threw)]]
    /\ UNCHANGED <<network, allowSynthetic, frontier, indexer, spends, nextTxid, lastOp,
                   ledger, lastMsg, wire, lastVerify, invocations, inflight, lastPoll,
                   listener, call, lineage, auth, budget, importer, background>>

(***************************************************************************)
(* Outbound network calls: wocFetch, fetchWithTimeout and plain fetch       *)
(* An answer is an HTTP status, NetworkError (fetch rejects) or NoAnswer    *)
(* (the peer accepts the request and stays silent).                         *)
(***************************************************************************)
\* wocFetch(urlPath, options = {}, maxRetries = 3, timeoutMs = 30000)
WocMaxRetries == 3

WocTimeoutMs == 30000

\* Math.min(1000 * Math.pow(2, attempt), 8000)
WocBackoffCapMs == 8000

\* fetchWithTimeout(url, options = {}, timeoutMs = 15000)
FetchTimeoutMs == 15000

NetworkError == 0

NoAnswer == -1

Answers == {200, 404, 429, 500, NetworkError, NoAnswer}

NoCall ==
    [site |-> "", woc |-> FALSE, pc |-> "idle", timeoutMs |-> 0, attempt |-> 0,
     answers |-> <<>>, delays |-> <<>>]

\* const delayMs = Math.min(1000 * Math.pow(2, attempt), 8000)
WocDelay(attempt) == Min(1000 * Pow2(attempt), WocBackoffCapMs)

\* slip: attempt <= maxRetries, one more round after the last retry
RetriesLeft_inclusive(attempt) == attempt <= WocMaxRetries

\* attempt < maxRetries
RetriesLeft(attempt) == attempt < WocMaxRetries

\* resp.status === 429 || resp.status >= 500
RetryStatus(status) == status = 429 \/ status >= 500

\* the indexer calls of the engine, all with the default maxRetries and timeoutMs
WocSites == {"/address/unspent", "/tx/hex", "/tx/proof/tsc", "/tx/raw"}

\* the calls to the relay, each with the timeout its call site sets (0: a
\* plain fetch, no AbortController)
RelaySites ==
    {[site |-> "ping:/relay/send", timeoutMs |-> 0],
     [site |-> "tell-joke:/relay/send", timeoutMs |-> 0],
     [site |-> "code-review:/relay/send", timeoutMs |-> 0],
     [site |-> "web-research:/relay/send", timeoutMs |-> 0],
     [site |-> "translate:/relay/send", timeoutMs |-> FetchTimeoutMs],
     [site |-> "api-proxy:/relay/send", timeoutMs |-> FetchTimeoutMs],
     [site |-> "roulette:/relay/send", timeoutMs |-> FetchTimeoutMs],
     [site |-> "memory-store:/relay/send", timeoutMs |-> FetchTimeoutMs],
     [site |-> "poll:/relay/inbox", timeoutMs |-> 0],
     [site |-> "poll:/relay/ack", timeoutMs |-> 0],
     [site |-> "connect:/relay/ack", timeoutMs |-> 0]}

\* what the awaited fetch does with the peer's answer: it resolves with the
\* status, rejects (a network error, or the abort when the timer fires on a
\* silent peer), or stays pending when there is no timer
Settles(answer, timeoutMs) ==
    IF answer = NoAnswer THEN (IF timeoutMs > 0 THEN "rejected" ELSE "pending")
    ELSE IF answer = NetworkError THEN "rejected"
    ELSE "resolved"

\* a caller enters wocFetch: attempt = 0
wocFetch ==
    /\ call.pc \in {"idle", "returned", "threw"}
    /\ \E site \in WocSites :
           call' = [NoCall EXCEPT !.site = site, !.woc = TRUE, !.pc = "fetching",
                                  !.timeoutMs = WocTimeoutMs]
    /\ UNCHANGED <<network, allowSynthetic, frontier, indexer, spends, nextTxid, lastOp,
                   ledger, lastMsg, wire, lastVerify, invocations, inflight, lastPoll,
                   listener, lineage, merkle, auth, budget, importer, background>>

\* one round of the loop: the fetch settles; a 429 or 5xx and a rejection
\* are followed by the delay and the next round while retries are left,
\* otherwise the response is returned or the last error thrown
wocAttempt ==
    /\ call.woc
    /\ call.pc = "fetching"
    /\ \E answer \in Answers :
           LET settled == Settles(answer, call.timeoutMs)
               seen == [call EXCEPT !.answers = Append(@, answer)]
               again == [seen EXCEPT !.delays = Append(@, WocDelay(call.attempt)),
                                     !.attempt = @ + 1]
           IN  call' =
                   IF settled = "pending" THEN [seen EXCEPT !.pc = "blocked"]
                   ELSE IF settled = "resolved"
                   THEN (IF RetryStatus(answer) /\ RetriesLeft(call.attempt)
                         THEN again
                         ELSE [seen EXCEPT !.pc = "returned"])
                   ELSE (IF RetriesLeft(call.attempt)
                         THEN again
                         ELSE [seen EXCEPT !.pc = "threw"])
    /\ UNCHANGED <<network, allowSynthetic, frontier, indexer, spends, nextTxid, lastOp,
                   ledger, lastMsg, wire, lastVerify, invocations, inflight, lastPoll,
                   listener, lineage, merkle, auth, budget, importer, background>>

\* a handler, poll or the listener awaits a call to the relay
relayFetch ==
    /\ call.pc \in {"idle", "returned", "threw"}
    /\ \E s \in RelaySites :
           call' = [NoCall EXCEPT !.site = s.site, !.pc = "fetching",
                                  !.timeoutMs = s.timeoutMs]
    /\ UNCHANGED <<network, allowSynthetic, frontier, indexer, spends, nextTxid, lastOp,
                   ledger, lastMsg, wire, lastVerify, invocations, inflight, lastPoll,
                   listener, lineage, merkle, auth, budget, importer, background>>

\* the awaited fetch settles, or never does
relaySettle ==
    /\ ~call.woc
    /\ call.pc = "fetching"
    /\ \E answer \in Answers :
           LET settled == Settles(answer, call.timeoutMs)
           IN  call' = [call EXCEPT !.answers = Append(@, answer),
                                    !.pc = CASE settled = "pending" -> "blocked"
                                             [] settled = "resolved" -> "returned"
                                             [] OTHER -> "threw"]
    /\ UNCHANGED <<network, allowSynthetic, frontier, indexer, spends, nextTxid, lastOp,
                   ledger, lastMsg, wire, lastVerify, invocations, inflight, lastPoll,
                   listener, lineage, merkle, auth, budget, importer, background>>

(***************************************************************************)
(* poll: cmdPoll over the whole inbox                                      *)
(***************************************************************************)
NoPoll == [polled |-> FALSE, results |-> <<>>, aborted |-> FALSE, ackedIds |-> {}]

\* the messages an inbox can hold: a ping, a message of another type, a paid
\* joke request, the same unsigned, a request for a service we do not run,
\* a signed joke request whose bundle is a BEEF without transactions, a
\* pong and a paid code review request
PollMessages ==
    LET Signed(id, type, pl) ==
            Message(id, Peer, Us, type, pl, signRelayMessage(Peer, Us, type, pl))
        joke == Payload("tell-joke", Payment("pay50", 50), "valid")
    IN  {Signed(1, TypePing, TextPayload),
         Signed(2, TypeOther, TextPayload),
         Signed(3, TypeServiceRequest, joke),
         Message(4, Peer, Us, TypeServiceRequest, joke, NoSignature),
         Signed(5, TypeServiceRequest,
                Payload("horoscope", Payment("pay50", 50), "valid")),
         Signed(6, TypeServiceRequest,
                Payload("tell-joke", Payment("emptyBeef", 50), "valid")),
         Signed(7, TypePong, TextPayload),
         Signed(8, TypeServiceRequest,
                Payload("code-review", Payment("pay50", 50), "valid"))}

\* inbox.messages: one or two messages
PollInboxes ==
    {<<m>> : m \in PollMessages}
        \cup {q \in {<<m, n>> : m, n \in PollMessages} : q[1] # q[2]}

\* for (const msg of inbox.messages) { result = await processMessage(...) }:
\* a throw of processMessage leaves the loop and cmdPoll
RECURSIVE PollLoop(_, _, _, _)
PollLoop(l, e, inbox, results) ==
    IF inbox = <<>>
    THEN {[ledger |-> l, eng |-> e, results |-> results, aborted |-> FALSE]}
    ELSE UNION {IF h.msg.threw
                THEN {[ledger |-> h.ledger, eng |-> h.eng,
                       results |-> Append(results, h.msg), aborted |-> TRUE]}
                ELSE PollLoop(h.ledger, h.eng, Tail(inbox), Append(results, h.msg)) :
                    h \in processMessage(l, e, Head(inbox))}

\* the ids POSTed to /relay/ack after the loop: those of the results with
\* ack set; nothing is POSTed when the loop was left by a throw
AckedIds(o) ==
    IF o.aborted THEN {}
    ELSE {o.results[i].id : i \in {k \in 1..Len(o.results) : o.results[k].ack}}

cmdPoll ==
    /\ nextTxid <= MaxTx
    /\ \E inbox \in PollInboxes :
           /\ Len(ledger) + Len(inbox) <= MaxLedger
           /\ \E o \in PollLoop(ledger, Cur, inbox, <<>>) :
                  /\ ledger' = o.ledger
                  /\ Apply(o.eng)
                  /\ lastMsg' = o.results[Len(o.results)]
                  /\ lastPoll' = [polled |-> TRUE, results |-> o.results,
                                  aborted |-> o.aborted, ackedIds |-> AckedIds(o)]
    /\ UNCHANGED <<network, allowSynthetic, wire, lastVerify, invocations, inflight, listener, call, lineage, merkle, auth, budget, importer, background>>

(***************************************************************************)
(* A peer pays, the agent verifies                                         *)
(* The engine state is the paying peer's, the ledger the receiving agent's *)
(***************************************************************************)
\* the payment transaction: output 0 pays sats to the recipient, output 1 is
\* the change when it is added; beef.toBinaryAtomic(txid), base64
encodePayment(op, sats, recipientHash160, senderHash160) ==
    Bundle(TRUE, 200, TRUE, TRUE, 1,
           <<Tx(op.txid,
                <<P2PKHOut(recipientHash160, sats)>>
                    \o (IF op.changeOut THEN <<P2PKHOut(senderHash160, op.change)>>
                        ELSE <<>>))>>)

\* overlay-cli pay <our key> <sats>: the peer's build; the bundle it prints
\* is what the peer sends, and the peer sends one payment
cmdPayPeer ==
    /\ nextTxid <= MaxTx
    /\ wire = NoBundle
    /\ \E sats \in PaySats : \E r \in buildDirectPayment(Cur, sats) :
           /\ Apply(r)
           /\ wire' = IF r.lastOp.ok
                      THEN encodePayment(r.lastOp, sats, OurHash160, PeerHash160)
                      ELSE wire
    /\ UNCHANGED <<network, allowSynthetic, ledger, lastMsg, lastVerify,
                   invocations, inflight, lastPoll, listener, call, lineage, merkle, auth, budget, importer, background>>

NoVerify ==
    [called |-> FALSE, payment |-> NoPayment, bundle |-> NoBundle, minSats |-> 0,
     recipient |-> "", ledgerLen |-> 0, result |-> NoResult]

\* the payment objects a request can carry: beef text and claimed satoshis
VerifierPayments ==
    {NoPayment, Payment("pay50", 50), Payment("pay4", 50), Payment("pay4", 4),
     Payment("payOther", 50), Payment("built", 50), Payment("beefChain", 50),
     Payment("emptyBeef", 50), Payment("short", 50), Payment("junk", 50),
     Payment("payDust", 50), Payment("%%", 50)}

\* the handlers whose call of the verifier is followed: serviceId and PRICE
PricedCalls ==
    {[serviceId |-> "tell-joke", PRICE |-> 5],
     [serviceId |-> "code-review", PRICE |-> 50]}

\* const payResult = await verifyAndAcceptPayment(msg.payload?.payment, PRICE,
\* msg.from, serviceId, ourHash160)
ReceivePayment ==
    /\ Len(ledger) < MaxLedger
    /\ \E payment \in VerifierPayments, h \in PricedCalls, appendOk \in BOOLEAN :
           /\ payment.beef = "built" => wire # NoBundle
           /\ LET v == verifyAndAcceptPayment(ledger, payment, h.PRICE, Peer,
                                              h.serviceId, OurHash160, appendOk)
                  seen == [called |-> TRUE, payment |-> payment,
                           bundle |-> BundleOf(payment.beef), minSats |-> h.PRICE,
                           recipient |-> OurHash160, ledgerLen |-> Len(ledger),
                           result |-> v.result]
              IN  /\ ledger' = v.ledger
                  /\ lastVerify' = seen
    /\ UNCHANGED <<network, allowSynthetic, frontier, indexer, spends, nextTxid, lastOp,
                   lastMsg, wire, invocations, inflight, lastPoll, listener, call, lineage, merkle, auth, budget, importer, background>>

(***************************************************************************)
(* A peer signs a relay message, a receiver verifies a signature           *)
(* What is verified is the (from, to, type, payload, signature) of the      *)
(* message as it arrives; every field is what the sender or the relay put   *)
(* there.                                                                   *)
(***************************************************************************)
NoAuth ==
    [signed |-> FALSE, verified |-> FALSE, privKey |-> <<>>, to |-> <<>>, type |-> <<>>,
     payload |-> Payload("", NoPayment, ""), signature |-> NoSignature,
     fromKey |-> <<>>, seenTo |-> <<>>, seenType |-> <<>>,
     seenPayload |-> Payload("", NoPayment, ""), seenSignature |-> NoSignature,
     valid |-> FALSE]

\* the identity keys of the signing peers; a private key and its public key
\* carry the same name
AuthKeys == {Peer, Mallory}

\* recipients: our key, our key followed by one more character, another key
AuthRecipients == {Us, Us \o <<"s">>, Peer}

\* message types: any string the sender chooses
AuthTypes == {TypePing, <<"s">> \o TypePing, TypeServiceRequest}

AuthPayloads == {Payload("", NoPayment, "hello"), Payload("tell-joke", NoPayment, "")}

\* sendMessage: the peer signs (to, type, payload) with its identity key
signMessage ==
    /\ \E privKey \in AuthKeys, to \in AuthRecipients, type \in AuthTypes,
          payload \in AuthPayloads :
           auth' = [NoAuth EXCEPT !.signed = TRUE, !.privKey = privKey, !.to = to,
                                  !.type = type, !.payload = payload,
                                  !.signature = signRelayMessage(privKey, to, type, payload)]
    /\ UNCHANGED <<network, allowSynthetic, frontier, indexer, spends, nextTxid, lastOp,
                   ledger, lastMsg, wire, lastVerify, invocations, inflight, lastPoll,
                   listener, call, lineage, merkle, budget, importer, background>>

\* processMessage: verifyRelaySignature(msg.from, msg.to, msg.type,
\* msg.payload, msg.signature) on a message carrying the signature made
\* above, a malformed one or none
verifyMessage ==
    /\ auth.signed
    /\ \E fromKey \in AuthKeys, to \in AuthRecipients, type \in AuthTypes,
          payload \in AuthPayloads,
          signature \in {auth.signature, GarbageSignature, NoSignature} :
           auth' = [auth EXCEPT !.verified = TRUE, !.fromKey = fromKey, !.seenTo = to,
                                !.seenType = type, !.seenPayload = payload,
                                !.seenSignature = signature,
                                !.valid = verifyRelaySignature(fromKey, to, type, payload,
                                                               signature)]
    /\ UNCHANGED <<network, allowSynthetic, frontier, indexer, spends, nextTxid, lastOp,
                   ledger, lastMsg, wire, lastVerify, invocations, inflight, lastPoll,
                   listener, call, lineage, merkle, budget, importer, background>>

(***************************************************************************)
(* Plugin (index.ts): the daily budget of the 'pay' and 'request' actions   *)
(* A tool call is an async function: it runs to its next await (the CLI it   *)
(* spawns, the sleep of the poll loop) and is resumed when that settles;     *)
(* the host may start another tool call in between.  The day is the date     *)
(* of new Date() at the moment the file is loaded.                           *)
(***************************************************************************)
\* config.dailyBudgetSats || 1000
DefaultDailyBudget == 1000

\* config.maxAutoPaySats || 200
DefaultMaxAutoPay == 200

\* return { date: today, totalSats: 0, transactions: [] }
FreshSpending(today) == [exists |-> TRUE, date |-> today, totalSats |-> 0, transactions |-> <<>>]

NoSpendingFile == [exists |-> FALSE, date |-> 0, totalSats |-> 0, transactions |-> <<>>]

\* loadDailySpending: the file if it parses and carries today's date,
\* otherwise a fresh record
loadDailySpending(file, today) ==
    IF file.exists /\ file.date = today THEN file ELSE FreshSpending(today)

SpendEntry(ts, sats, service, provider) ==
    [ts |-> ts, sats |-> sats, service |-> service, provider |-> provider]

\* recordSpend: the file as fs.writeFileSync leaves it when it succeeds
recordSpend(file, today, sats, service, provider) ==
    LET spending == loadDailySpending(file, today)
    IN  [spending EXCEPT !.totalSats = @ + sats,
                         !.transactions = Append(@, SpendEntry(today, sats, service, provider))]

\* checkBudget: what remains of the limit after the total recorded today
checkBudget(file, today, requestedSats, dailyLimit) ==
    LET spending == loadDailySpending(file, today)
        remaining == dailyLimit - spending.totalSats
    IN  [allowed |-> remaining >= requestedSats, remaining |-> remaining,
         spent |-> spending.totalSats]

\* config.dailyBudgetSats || 1000, with 0 for a limit that is not configured
DailyLimit(dailyBudgetSats) ==
    IF dailyBudgetSats = 0 THEN DefaultDailyBudget ELSE dailyBudgetSats

NoCallState ==
    [pc |-> "idle", action |-> "", sats |-> 0, service |-> "", provider |-> "",
     paid |-> FALSE]

NoToolResult ==
    [action |-> "", outcome |-> "", sats |-> 0, spent |-> 0, remaining |-> 0,
     limit |-> 0, sentBefore |-> 0, sentAfter |-> 0]

\* the slots of tool calls the host may have in progress at once
ToolCalls == {1, 2}

NoBudget ==
    [today |-> 1, dailyBudgetSats |-> 0, file |-> NoSpendingFile,
     calls |-> [c \in ToolCalls |-> NoCallState], sent |-> <<>>, started |-> 0,
     last |-> NoToolResult]

\* a payment that left the wallet: what was paid, for what, to whom, when
Sent(day, sats, service, provider) ==
    [day |-> day, sats |-> sats, service |-> service, provider |-> provider]

ToolResult(b, action, outcome, sats, check, sentAfter) ==
    [action |-> action, outcome |-> outcome, sats |-> sats, spent |-> check.spent,
     remaining |-> check.remaining, limit |-> DailyLimit(b.dailyBudgetSats),
     sentBefore |-> Len(b.sent), sentAfter |-> sentAfter]

BudgetUnchanged ==
    UNCHANGED <<network, allowSynthetic, frontier, indexer, spends, nextTxid, lastOp,
                ledger, lastMsg, wire, lastVerify, invocations, inflight, lastPoll,
                listener, call, lineage, merkle, auth, importer, background>>

\* the amounts of the 'pay' action
PayAmounts == {400, 700}

\* the price the cheapest external provider advertises
ProviderPrices == {150, 700}

\* params.maxPrice, 0 when it is not given
MaxPrices == {0, 1000}

Finish(b, c, result) == [b EXCEPT !.calls[c] = NoCallState, !.last = result]

\* midnight passes: new Date() yields the next day
midnight ==
    /\ budget.today < MaxDay
    /\ budget' = [budget EXCEPT !.today = @ + 1]
    /\ BudgetUnchanged

\* handleDirectPay up to the spawn of the pay command: the budget check
payStart(c) ==
    /\ budget.calls[c].pc = "idle"
    /\ budget.started < MaxCalls
    /\ \E sats \in PayAmounts :
           LET b == [budget EXCEPT !.started = @ + 1]
               check == checkBudget(b.file, b.today, sats, DailyLimit(b.dailyBudgetSats))
           IN  budget' =
                   IF ~check.allowed
                   THEN Finish(b, c, ToolResult(b, "pay", "refused", sats, check, Len(b.sent)))
                   ELSE [b EXCEPT !.calls[c] =
                            [pc |-> "paying", action |-> "pay", sats |-> sats,
                             service |-> "direct-payment", provider |-> "peerKey",
                             paid |-> FALSE],
                                  !.last = ToolResult(b, "pay", "allowed", sats, check,
                                                      Len(b.sent))]
    /\ BudgetUnchanged

\* recordSpend after a payment, as it ends the tool call: the file is written,
\* or writeFileSync throws and the call fails with the payment made
Recorded(b, c, action, sats, service, provider, writeOk) ==
    LET check == checkBudget(b.file, b.today, sats, DailyLimit(b.dailyBudgetSats))
    IN  IF writeOk
        THEN Finish([b EXCEPT !.file = recordSpend(b.file, b.today, sats, service, provider)],
                    c, ToolResult(b, action, "recorded", sats, check, Len(b.sent)))
        ELSE Finish(b, c, ToolResult(b, action, "record-failed", sats, check, Len(b.sent)))

\* handleDirectPay resumed: the pay command failed and nothing was paid, or
\* it built and delivered the payment and the spending is recorded
payDone(c) ==
    /\ budget.calls[c].pc = "paying"
    /\ LET h == budget.calls[c]
           check == checkBudget(budget.file, budget.today, h.sats,
                                DailyLimit(budget.dailyBudgetSats))
       IN  \/ budget' = Finish(budget, c,
                               ToolResult(budget, "pay", "failed", h.sats, check,
                                          Len(budget.sent)))
           \/ \E writeOk \in BOOLEAN :
                  budget' = Recorded([budget EXCEPT !.sent =
                                         Append(@, Sent(budget.today, h.sats, h.service,
                                                        h.provider))],
                                     c, "pay", h.sats, h.service, h.provider, writeOk)
    /\ BudgetUnchanged

\* handleServiceRequest up to the spawn of request-service: discovery, the
\* price limit, the budget check
requestStart(c) ==
    /\ budget.calls[c].pc = "idle"
    /\ budget.started < MaxCalls
    /\ \E price \in ProviderPrices, maxPrice \in MaxPrices :
           LET b == [budget EXCEPT !.started = @ + 1]
               userMaxPrice == IF maxPrice # 0 THEN maxPrice ELSE DefaultMaxAutoPay
               check == checkBudget(b.file, b.today, price, DailyLimit(b.dailyBudgetSats))
           IN  budget' =
                   IF price > userMaxPrice
                   THEN Finish(b, c, ToolResult(b, "request", "over-price", price, check,
                                                Len(b.sent)))
                   ELSE IF ~check.allowed
                   THEN Finish(b, c, ToolResult(b, "request", "refused", price, check,
                                                Len(b.sent)))
                   ELSE [b EXCEPT !.calls[c] =
                            [pc |-> "requesting", action |-> "request", sats |-> price,
                             service |-> "tell-joke", provider |-> "agentName",
                             paid |-> FALSE],
                                  !.last = ToolResult(b, "request", "allowed", price, check,
                                                      Len(b.sent))]
    /\ BudgetUnchanged

\* request-service: the payment is built and the request sent; or the
\* payment fails and the request is sent without it; or the payment is built
\* and the relay refuses the request; or the command fails before paying
RequestServiceOutcomes == {"paid-sent", "unpaid-sent", "paid-unsent", "failed"}

\* handleServiceRequest resumed after request-service
requestSent(c) ==
    /\ budget.calls[c].pc = "requesting"
    /\ \E o \in RequestServiceOutcomes :
           LET h == budget.calls[c]
               paid == o \in {"paid-sent", "paid-unsent"}
               b == IF paid
                    THEN [budget EXCEPT !.sent = Append(@, Sent(budget.today, h.sats,
                                                                h.service, h.provider))]
                    ELSE budget
               check == checkBudget(b.file, b.today, h.sats, DailyLimit(b.dailyBudgetSats))
           IN  budget' =
                   IF o \in {"paid-sent", "unpaid-sent"}
                   THEN [b EXCEPT !.calls[c].pc = "polling", !.calls[c].paid = paid]
                   ELSE Finish(b, c, ToolResult(budget, "request", "failed", h.sats, check,
                                                Len(b.sent)))
    /\ BudgetUnchanged

\* the poll loop of handleServiceRequest: within 12 polls a service-response
\* of the provider arrives and the spending is recorded, or the request
\* times out
requestPolled(c) ==
    /\ budget.calls[c].pc = "polling"
    /\ LET h == budget.calls[c]
           check == checkBudget(budget.file, budget.today, h.sats,
                                DailyLimit(budget.dailyBudgetSats))
       IN  \/ \E writeOk \in BOOLEAN :
                  budget' = Recorded(budget, c, "request", h.sats, h.service, h.provider,
                                     writeOk)
           \/ budget' = Finish(budget, c,
                               ToolResult(budget, "request", "timed-out", h.sats, check,
                                          Len(budget.sent)))
    /\ BudgetUnchanged

(***************************************************************************)
(* Plugin (index.ts): the auto-import loop                                  *)
(* The interval callback runs every 60 seconds.  The import command ends    *)
(* with exit code 1 on every failure (fail() calls process.exit(1)), which   *)
(* rejects the promise of execFile.                                          *)
(***************************************************************************)
\* if (utxo.value < 200) continue
AutoImportMinValue == 200

\* values of the outputs that arrive at the wallet address
ArrivingValues == {150, 300}

AddressOutput(key, value, confirmed) == [key |-> key, value |-> value, confirmed |-> confirmed]

\* after startAutoImport: the interval is set, knownTxids is empty
NoImporter ==
    [running |-> TRUE, knownTxids |-> {}, outputs |-> {}, imported |-> {}, cycle |-> 0,
     lastImports |-> {}]

ImporterUnchanged ==
    UNCHANGED <<network, allowSynthetic, frontier, indexer, spends, nextTxid, lastOp,
                ledger, lastMsg, wire, lastVerify, invocations, inflight, lastPoll,
                listener, call, lineage, merkle, auth, budget, background>>

\* somebody pays to the wallet address
outputArrives ==
    /\ Cardinality(importer.outputs) < MaxOutputs
    /\ \E value \in ArrivingValues, confirmed \in BOOLEAN :
           importer' = [importer EXCEPT !.outputs =
                           @ \cup {AddressOutput(Cardinality(importer.outputs) + 1, value,
                                                 confirmed)}]
    /\ ImporterUnchanged

\* a block confirms the transaction of an output
outputConfirms ==
    /\ \E o \in importer.outputs :
           /\ ~o.confirmed
           /\ importer' = [importer EXCEPT !.outputs =
                              (@ \ {o}) \cup {[o EXCEPT !.confirmed = TRUE]}]
    /\ ImporterUnchanged

\* cmdImport: fails on a transaction without a confirmation, on a failing
\* indexer request or wallet (transient: the output is in failing)
cmdImport(o, failing) == o.confirmed /\ o.key \notin failing

\* knownTxids.add(key) after a successful import, and in the catch of a
\* failed one: "track it so we don't retry"
AfterImport(knownTxids, key, succeeded) == knownTxids \cup {key}

\* one run of the interval callback: the unspent outputs are fetched
\* (fetchOk), every output not yet known and of at least 200 satoshis is
\* handed to the import command
autoImportTick(fetchOk, failing) ==
    /\ importer.running
    /\ LET utxos == IF fetchOk THEN importer.outputs ELSE {}
           tried == {o \in utxos : o.key \notin importer.knownTxids
                                       /\ ~(o.value < AutoImportMinValue)}
           succeeded == {o \in tried : cmdImport(o, failing)}
       IN  importer' = [importer EXCEPT
                           !.cycle = 1 - @,
                           !.imported = @ \cup {o.key : o \in succeeded},
                           !.knownTxids =
                               UNION ({@} \cup {AfterImport(@, o.key, o \in succeeded) :
                                                    o \in tried}),
                           !.lastImports = {o.key : o \in tried}]
    /\ ImporterUnchanged

\* the callback, whatever the indexer and the import command do
autoImport ==
    \E fetchOk \in BOOLEAN, failing \in SUBSET (1..MaxOutputs) :
        autoImportTick(fetchOk, failing)

(***************************************************************************)
(* Plugin (index.ts): the background 'connect' child process                *)
(* A child is alive from spawn until it exits; kill('SIGTERM') asks it to    *)
(* exit, its 'exit' event comes when it has.                                 *)
(***************************************************************************)
NoChild == 0

\* let backgroundProcess = null; let serviceRunning = false
NoService ==
    [serviceRunning |-> FALSE, backgroundProcess |-> NoChild, alive |-> {},
     signalled |-> {}, timers |-> 0, spawned |-> 0]

ServiceUnchanged ==
    UNCHANGED <<network, allowSynthetic, frontier, indexer, spends, nextTxid, lastOp,
                ledger, lastMsg, wire, lastVerify, invocations, inflight, lastPoll,
                listener, call, lineage, merkle, auth, budget, importer>>

\* spawnConnect: if (!serviceRunning) return; spawn the child, keep it in
\* backgroundProcess
spawnConnect(s) ==
    IF ~s.serviceRunning THEN s
    ELSE [s EXCEPT !.spawned = @ + 1,
                   !.alive = @ \cup {s.spawned + 1},
                   !.backgroundProcess = s.spawned + 1]

\* startBackgroundService: if (backgroundProcess) return; serviceRunning =
\* true; spawnConnect()
startBackgroundService ==
    /\ background.spawned < MaxSpawns
    /\ background' = IF background.backgroundProcess # NoChild THEN background
                     ELSE spawnConnect([background EXCEPT !.serviceRunning = TRUE])
    /\ ServiceUnchanged

\* stopBackgroundService: serviceRunning = false; the child is sent SIGTERM
\* and backgroundProcess is cleared
stopBackgroundService ==
    /\ background' = [background EXCEPT
                         !.serviceRunning = FALSE,
                         !.signalled = IF background.backgroundProcess # NoChild
                                       THEN @ \cup {background.backgroundProcess} ELSE @,
                         !.backgroundProcess = NoChild]
    /\ ServiceUnchanged

\* a child exits, by itself or on the signal: proc.on('exit') clears
\* backgroundProcess and, if the service runs, sets the 5-second timer
childExit ==
    /\ \E proc \in background.alive :
           background' = [background EXCEPT
                             !.alive = @ \ {proc},
                             !.signalled = @ \ {proc},
                             !.backgroundProcess = NoChild,
                             !.timers = IF background.serviceRunning THEN @ + 1
                                                 ELSE @]
    /\ ServiceUnchanged

\* setTimeout(spawnConnect, 5000) fires
restartTimer ==
    /\ background.timers > 0
    /\ background.spawned < MaxSpawns
    /\ background' = spawnConnect([background EXCEPT !.timers = @ - 1])
    /\ ServiceUnchanged

(***************************************************************************)
(* Specifications                                                          *)
(***************************************************************************)
Init ==
    /\ network \in {"mainnet", "testnet"}
    /\ allowSynthetic \in BOOLEAN
    /\ frontier = Absent
    /\ indexer = {}
    /\ spends = {}
    /\ nextTxid = 1
    /\ lastOp = NoOp
    /\ ledger = <<>>
    /\ lastMsg = NoMsg
    /\ wire = NoBundle
    /\ lastVerify = NoVerify
    /\ invocations = [p \in Procs |-> Idle]
    /\ inflight = {}
    /\ lastPoll = NoPoll
    /\ listener = Listening
    /\ call = NoCall
    /\ lineage = NoLineage
    /\ merkle = NoMerkle
    /\ auth = NoAuth
    /\ budget = NoBudget
    /\ importer = NoImporter
    /\ background = NoService

Next ==
    \/ Fund
    \/ cmdPay
    \/ cmdAdvertise
    \/ cmdRefund

Spec == Init /\ [][Next]_vars

\* the listener of a mainnet agent whose wallet holds no output yet
InitDispatch ==
    /\ Init
    /\ network = "mainnet"
    /\ allowSynthetic = FALSE

NextDispatch ==
    Deliver

\* an agent that runs the earlier CLI
NextLegacy ==
    \/ Fund
    \/ legacy_cmdAdvertise

SpecLegacy == Init /\ [][NextLegacy]_vars

SpecDispatch == InitDispatch /\ [][NextDispatch]_vars

\* a paying peer on mainnet whose last build left a change of 500 satoshis
\* in latest-change.json, and the agent it pays
InitPayment ==
    /\ network = "mainnet"
    /\ allowSynthetic = FALSE
    /\ frontier = Present(1, 1, 500)
    /\ indexer = {Utxo(1, 1, 500)}
    /\ spends = {}
    /\ nextTxid = 2
    /\ lastOp = NoOp
    /\ ledger = <<>>
    /\ lastMsg = NoMsg
    /\ wire = NoBundle
    /\ lastVerify = NoVerify
    /\ invocations = [p \in Procs |-> Idle]
    /\ inflight = {}
    /\ lastPoll = NoPoll
    /\ listener = Listening
    /\ call = NoCall
    /\ lineage = NoLineage
    /\ merkle = NoMerkle
    /\ auth = NoAuth
    /\ budget = NoBudget
    /\ importer = NoImporter
    /\ background = NoService

NextPayment ==
    \/ cmdPayPeer
    \/ ReceivePayment

SpecPayment == InitPayment /\ [][NextPayment]_vars

\* two processes of a mainnet agent that pay at the same time
InitRace ==
    /\ Init
    /\ network = "mainnet"
    /\ allowSynthetic = FALSE

NextRace ==
    \/ Fund
    \/ payLoad
    \/ payFinish

SpecRace == InitRace /\ [][NextRace]_vars

NextPoll ==
    cmdPoll

\* the poller of a mainnet agent whose wallet holds no output
SpecPoll == InitDispatch /\ [][NextPoll]_vars

NextConnect ==
    \/ wsOpen
    \/ wsMessage
    \/ wsSettle

\* the listener of a mainnet agent whose wallet holds no output, on a
\* connection that stays open
SpecConnect == InitDispatch /\ [][NextConnect]_vars

NextFunded ==
    \/ DeliverFunded

\* the dispatcher of a mainnet agent whose cache holds a 500-satoshi frontier
SpecFunded == InitPayment /\ [][NextFunded]_vars

NextChain ==
    \/ payFromIndexer
    \/ payFromStored

\* payments one after the other, each from the indexer or from the change
\* the one before saved
SpecChain == Init /\ [][NextChain]_vars

NextMerkle ==
    \/ attachProof
    \/ attachProofAgain
    \/ walkProof

\* every proof of a tree of height 0 to 3, built and built again
SpecMerkle == Init /\ [][NextMerkle]_vars

NextNetwork ==
    \/ wocFetch
    \/ wocAttempt
    \/ relayFetch
    \/ relaySettle

\* one outbound call after the other, each with every answer of its peer
SpecNetwork == Init /\ [][NextNetwork]_vars

NextListener ==
    \/ wsOpen
    \/ wsClose
    \/ reconnect
    \/ wsListen
    \/ wsSettle

\* the same listener on a connection that drops and is made again
SpecListener == InitDispatch /\ [][NextListener]_vars

NextAuth ==
    \/ signMessage
    \/ verifyMessage

\* every signed message against every message a receiver may be shown
SpecAuth == Init /\ [][NextAuth]_vars

\* the engine on mainnet with synthetic funding off, the configuration the
\* CLI ships with
SpecMainnet == InitDispatch /\ [][Next]_vars

\* the plugin is registered with its configuration: no daily limit
\* configured, or one of 500
InitBudget ==
    /\ network = "mainnet"
    /\ allowSynthetic = FALSE
    /\ frontier = Absent
    /\ indexer = {}
    /\ spends = {}
    /\ nextTxid = 1
    /\ lastOp = NoOp
    /\ ledger = <<>>
    /\ lastMsg = NoMsg
    /\ wire = NoBundle
    /\ lastVerify = NoVerify
    /\ invocations = [p \in Procs |-> Idle]
    /\ inflight = {}
    /\ lastPoll = NoPoll
    /\ listener = Listening
    /\ call = NoCall
    /\ lineage = NoLineage
    /\ merkle = NoMerkle
    /\ auth = NoAuth
    /\ \E dailyBudgetSats \in {0, 500} :
           budget = [NoBudget EXCEPT !.dailyBudgetSats = dailyBudgetSats]
    /\ importer = NoImporter
    /\ background = NoService

NextBudget ==
    \/ midnight
    \/ \E c \in ToolCalls : payStart(c)
    \/ \E c \in ToolCalls : payDone(c)
    \/ \E c \in ToolCalls : requestStart(c)
    \/ \E c \in ToolCalls : requestSent(c)
    \/ \E c \in ToolCalls : requestPolled(c)

\* the 'pay' and 'request' actions of the plugin over two days
SpecBudget == InitBudget /\ [][NextBudget]_vars

NextImport ==
    \/ outputArrives
    \/ outputConfirms
    \/ autoImport

\* the auto-import loop while the plugin runs: blocks keep confirming
\* transactions, the interval keeps firing, and again and again a run of the
\* callback finds the indexer answering and the import command working
SpecImport ==
    /\ Init
    /\ [][NextImport]_vars
    /\ WF_vars(outputConfirms)
    /\ WF_vars(autoImportTick(TRUE, {}))

NextService ==
    \/ startBackgroundService
    \/ stopBackgroundService
    \/ childExit
    \/ restartTimer

\* the host starts and stops the service while children exit and timers fire
SpecService == Init /\ [][NextService]_vars

(***************************************************************************)
(* Properties                                                              *)
(***************************************************************************)
\* the minimum price each service handler passes to the verifier
ConfiguredPrice(serviceId) ==
    CASE serviceId = "tell-joke" -> 5
      [] serviceId = "code-review" -> 50
      [] serviceId = "web-research" -> 50
      [] serviceId = "translate" -> 20
      [] serviceId = "api-proxy" -> 15
      [] serviceId = "roulette" -> 10
      [] serviceId = "memory-store" -> 10
      [] OTHER -> 0

PaidServices == ServiceIds \ {"horoscope"}

\* the reasons a handler gives when it turns a request down on its input alone
ValidationReasons ==
    {"no query", "no text", "no api", "invalid bet", "bet too high", "invalid operation"}

C2_SignatureGate ==
    [][(lastMsg'.kind = "msg" /\ lastMsg'.type = TypeServiceRequest /\ lastMsg'.tampered)
          => /\ lastMsg'.action = "rejected"
             /\ lastMsg'.reason = "invalid-signature"
             /\ lastMsg'.verifierCalls = <<>>
             /\ lastMsg'.response = "none"
             /\ ledger' = ledger
             /\ lastOp' = lastOp]_vars

C2_Witness ==
    /\ lastMsg.type = TypeServiceRequest
    /\ lastMsg.tampered
    /\ lastMsg.serviceId = "tell-joke"
    /\ lastMsg.reason = "invalid-signature"

\* C3 as stated: no output is the input of two different transactions the
\* engine built (stated for the outputs of real transactions; the fabricated
\* funding output of the synthetic tier is left aside)
C3_NoDoubleSpend ==
    \A a \in spends : \A b \in spends :
        (a.out = b.out /\ a.out[1] # SyntheticFundingTxid) => a.tx = b.tx

\* C4 as stated: after a run that spent the persisted frontier's output, the
\* frontier is that run's new change output or is gone (stated for the runs
\* in which no write to the cache file failed)
C4_FrontierConsumed ==
    (/\ lastOp.ok
     /\ lastOp.cached.state = "present"
     /\ Outpoint(lastOp.cached) \in lastOp.inputs
     /\ lastOp.saveCall.called => lastOp.writeOk)
        => \/ frontier = Absent
           \/ lastOp.changeOut /\ frontier = Present(lastOp.txid, 1, lastOp.change)

\* C5 as stated: after a successful build with a change output the persisted
\* frontier is exactly that output
C5_FrontierIsNewChange ==
    (lastOp.ok /\ lastOp.changeOut)
        => frontier = Present(lastOp.txid, 1, lastOp.change)

\* C5 amended: a successful build with a change output calls saveChangeBeef
\* with that output, and when the write succeeds the frontier is exactly it
C5_SaveCalledWithChange ==
    (lastOp.ok /\ lastOp.changeOut)
        => /\ lastOp.saveCall = SaveCall(lastOp.txid, 1, lastOp.change)
           /\ lastOp.writeOk => frontier = Present(lastOp.txid, 1, lastOp.change)

C5_Witness ==
    /\ lastOp.ok
    /\ lastOp.changeOut
    /\ lastOp.cached.state = "present"
    /\ frontier = Present(lastOp.txid, 1, lastOp.change)

\* the cached frontier the run started with covers what the run needed
CachedCovers ==
    /\ lastOp.kind \in {"pay", "overlay"}
    /\ lastOp.cached.state = "present"
    /\ lastOp.cached.satoshis >= lastOp.need

\* C6 as stated: with a covering cached frontier the resolution makes no
\* indexer call
C6_NoIndexerCall == CachedCovers => lastOp.wocCalls = 0

\* C6 amended: with a covering cached frontier the indexer is called only
\* after the cached tier itself was tried and failed
C6_NoIndexerCallUnlessCachedTierFailed ==
    (CachedCovers /\ lastOp.wocCalls > 0)
        => lastOp.attempts[1] = Attempt(1, "failed")

C6_Witness ==
    /\ CachedCovers
    /\ lastOp.kind = "pay"
    /\ lastOp.ok
    /\ lastOp.funded = "stored-beef"
    /\ lastOp.wocCalls = 0

\* C7 as stated: on mainnet without ALLOW_SYNTHETIC=true no build returns a
\* synthetically funded transaction
C7_NoSyntheticOnMainnet ==
    (network = "mainnet" /\ ~allowSynthetic) => ~(lastOp.ok /\ lastOp.funded = "synthetic")

\* C8: the tiers are tried in the order 1 cached frontier, 2 indexer,
\* 3 wallet, 4 synthetic, and every tier before the last one tried was
\* unavailable or failed
C8_TierOrder ==
    lastOp.kind \in {"pay", "overlay"}
        => /\ \A i \in 1..Len(lastOp.attempts) : lastOp.attempts[i].tier = i
           /\ \A i \in 1..(Len(lastOp.attempts) - 1) :
                  lastOp.attempts[i].outcome \in {"unavailable", "failed"}

C8_Witness ==
    /\ lastOp.kind = "overlay"
    /\ lastOp.ok
    /\ lastOp.funded = "synthetic"
    /\ Len(lastOp.attempts) = 4
    /\ lastOp.cached.state = "present"

C10_LedgerAppendOnly ==
    [][/\ \/ ledger' = ledger
          \/ /\ Len(ledger') = Len(ledger) + 1
             /\ SubSeq(ledger', 1, Len(ledger)) = ledger
             /\ lastMsg'.accepted
             /\ ledger'[Len(ledger')].txid = lastMsg'.paymentTxid
       /\ (lastMsg'.verifierCalls # <<>> /\ ~lastMsg'.accepted) => ledger' = ledger]_vars

C10_Witness ==
    /\ Len(ledger) >= 1
    /\ lastMsg.verifierCalls # <<>>
    /\ ~lastMsg.accepted

(***************************************************************************)
(* Payment verifier: acceptance, reasons, determinism                      *)
(***************************************************************************)
\* the transaction a decoded bundle resolves to
ResolvedTx(b) == IF b.atomic THEN b.txs[b.subject] ELSE b.txs[Len(b.txs)]

\* the bundle is base64 of at least 20 bytes that one of the two decodings
\* turns into a transaction
Decodes(b) ==
    b.b64 /\ b.len >= 20 /\ (b.atomic \/ (b.beef /\ b.txs # <<>>))

\* indexes of the standard pay-to-key-hash outputs to the recipient
MatchingOutputs(c) ==
    {i \in 1..Len(ResolvedTx(c.bundle).outputs) :
        /\ ResolvedTx(c.bundle).outputs[i].std
        /\ ResolvedTx(c.bundle).outputs[i].hash = c.recipient}

\* what the first matching output pays
MatchedSats(c) ==
    LET i == CHOOSE k \in MatchingOutputs(c) : \A j \in MatchingOutputs(c) : k <= j
    IN  ResolvedTx(c.bundle).outputs[i].satoshis

\* the reasons of the code are template strings; the model keeps their
\* literal head: 'underpaid: 4 < 5' is "underpaid", 'output underpaid: 49 <
\* 50' is "output underpaid"
MentionsUnderpaid(reason) == reason \in {"underpaid", "output underpaid"}

\* C11: every verification that returns accepted = true has appended a
\* record with the same txid, output index and satoshis to the ledger
C11_AcceptedIsRecorded ==
    lastVerify.result.accepted
        => /\ Len(ledger) = lastVerify.ledgerLen + 1
           /\ ledger[Len(ledger)].txid = lastVerify.result.txid
           /\ ledger[Len(ledger)].vout = lastVerify.result.outputIndex
           /\ ledger[Len(ledger)].satoshis = lastVerify.result.satoshis

\* C12: a payment whose matching output pays minimum - 1 is rejected with a
\* reason that mentions "underpaid"; one whose matching output pays exactly
\* the minimum, claimed as such, is accepted
C12_UnderpaymentEdge ==
    (lastVerify.called /\ Decodes(lastVerify.bundle)
        /\ MatchingOutputs(lastVerify) # {})
        => /\ (MatchedSats(lastVerify) = lastVerify.minSats - 1
                    /\ lastVerify.payment.satoshis > 0)
                => (~lastVerify.result.accepted
                    /\ MentionsUnderpaid(lastVerify.result.error))
           /\ (MatchedSats(lastVerify) = lastVerify.minSats
                    /\ lastVerify.payment.satoshis >= lastVerify.minSats)
                => lastVerify.result.accepted

\* an output of minimum - 1 was just turned away, after a payment of exactly
\* the minimum of 50 was accepted and recorded
C12_Witness ==
    /\ lastVerify.called
    /\ Decodes(lastVerify.bundle)
    /\ MatchingOutputs(lastVerify) # {}
    /\ MatchedSats(lastVerify) = lastVerify.minSats - 1
    /\ lastVerify.result.error = "output underpaid"
    /\ \E i \in 1..Len(ledger) :
           ledger[i].satoshis = 50 /\ ledger[i].serviceId = "code-review"

\* C13: the verifier never throws, it returns a structured result for every
\* input
C13_VerifierNeverThrows == ~lastVerify.result.threw

\* the reason of the first failing step, "" when every step passes; decode
\* is the reason of a bundle that does not decode
FirstFailure(c, decode) ==
    IF ~c.payment.present \/ c.payment.beef = "" \/ c.payment.satoshis = 0
    THEN "no payment"
    ELSE IF c.payment.satoshis < c.minSats THEN "underpaid"
    ELSE IF ~Decodes(c.bundle) THEN decode
    ELSE IF MatchingOutputs(c) = {} THEN "no matching output"
    ELSE IF MatchedSats(c) < c.minSats THEN "output underpaid"
    ELSE ""

\* the three reasons the code gives for a bundle that does not decode
DecodeFailure(b) ==
    IF ~b.b64 THEN "invalid base64"
    ELSE IF b.len < 20 THEN "invalid beef length"
    ELSE "beef parse failed"

AcceptanceOutcome(c) ==
    <<c.result.accepted, c.result.txid, c.result.outputIndex, c.result.satoshis,
      c.result.threw>>

\* C15: verifying the same payment again, against the same recipient and
\* minimum, gives the same acceptance outcome whatever happened to the
\* ledger and the frontier in between
C15_SameBundleSameOutcome ==
    [][(/\ lastVerify.called
        /\ lastVerify'.called
        /\ lastVerify'.payment = lastVerify.payment
        /\ lastVerify'.bundle = lastVerify.bundle
        /\ lastVerify'.minSats = lastVerify.minSats
        /\ lastVerify'.recipient = lastVerify.recipient)
            => AcceptanceOutcome(lastVerify') = AcceptanceOutcome(lastVerify)]_vars

\* a payment is accepted whose record an earlier verification at the same
\* price already put in the ledger
C15_Witness ==
    /\ lastVerify.result.accepted
    /\ Len(ledger) = lastVerify.ledgerLen + 1
    /\ \E i \in 1..lastVerify.ledgerLen :
           /\ ledger[i].txid = lastVerify.result.txid
           /\ ledger[i].beefBase64 = lastVerify.payment.beef
           /\ ConfiguredPrice(ledger[i].serviceId) = lastVerify.minSats

(***************************************************************************)
(* End to end: 50 satoshis from a frontier of 500                          *)
(***************************************************************************)
\* the last build paid 50 satoshis out of the cached frontier of 500
PaidFiftyFromCache ==
    /\ lastOp.kind = "pay"
    /\ lastOp.ok
    /\ lastOp.funded = "stored-beef"
    /\ lastOp.cached.satoshis = 500
    /\ lastOp.need = 50 + PayReserve

\* the last verification was of that payment's bundle at a minimum of 50
VerifiedFiftyAtFifty ==
    /\ lastVerify.called
    /\ lastVerify.payment = Payment("built", 50)
    /\ lastVerify.minSats = 50
    /\ lastVerify.bundle.txs[1].outputs[1].satoshis = 50

SourceSurplus ==
    IF lastOp.kind = "pay"
    THEN lastOp.cached.satoshis - (lastOp.need - PayReserve) - PaymentFee
    ELSE lastOp.cached.satoshis - OverlayFee

\* C16: a built transaction has a change output if and only if
\* sourceAmount - sum(outputs) - fee >= 136
C16_ChangeIffAboveDust ==
    (lastOp.ok /\ lastOp.funded = "stored-beef")
        => (lastOp.changeOut <=> SourceSurplus >= DustThreshold)

(***************************************************************************)
(* Concurrent invocations                                                  *)
(***************************************************************************)
\* both processes are through, both read the same file contents, both wrote
\* their change, and q wrote after p
BothSavedAfterSameLoad(p, q) ==
    /\ p # q
    /\ invocations[p].pc = "done"
    /\ invocations[q].pc = "done"
    /\ invocations[p].loaded = invocations[q].loaded
    /\ invocations[p].saveCall.called /\ invocations[p].writeOk
    /\ invocations[q].saveCall.called /\ invocations[q].writeOk
    /\ invocations[p].txid < invocations[q].txid

FrontierOf(c) == Present(c.txid, c.vout, c.satoshis)

\* C19: nothing serializes the frontier file: when two invocations read it
\* before either writes it, the later write wins and the earlier update is
\* no longer in the file
C19_LastWriterWins ==
    \A p, q \in Procs :
        BothSavedAfterSameLoad(p, q)
            => /\ frontier = FrontierOf(invocations[q].saveCall)
               /\ frontier # FrontierOf(invocations[p].saveCall)

\* both read the same stored change and spent it; the change output of the
\* first is unspent and no file names it
C19_Witness ==
    \E p, q \in Procs :
        /\ BothSavedAfterSameLoad(p, q)
        /\ invocations[p].loaded.state = "present"
        /\ \A sp \in spends : sp.out # <<invocations[p].txid, 1>>
        /\ frontier # FrontierOf(invocations[p].saveCall)

(***************************************************************************)
(* Listening mode                                                          *)
(***************************************************************************)
\* C18: in the listening mode the run for one message completes before the
\* run for the next message starts: no two runs are under way together
C18_OneRunAtATime == Cardinality(inflight) <= 1

(***************************************************************************)
(* Acknowledgement                                                         *)
(***************************************************************************)
\* C20: a message is acknowledged if and only if its outcome is not
\* unhandled: every message the dispatcher rejected, answered or served is
\* acknowledged, a message it left unhandled never is
C20_AckIffHandled ==
    \A i \in 1..Len(lastPoll.results) :
        ~lastPoll.results[i].threw
            => (lastPoll.results[i].id \in lastPoll.ackedIds
                    <=> lastPoll.results[i].action # "unhandled")

\* the outcomes with which the dispatcher has handled a service request
HandledOutcomes == {"rejected", "fulfilled", "partial", "queued"}

\* C21 as stated: every service request the dispatcher handled (rejected or
\* accepted) had a signed response sent to the requester
C21_AlwaysResponds ==
    (/\ lastMsg.type = TypeServiceRequest
     /\ lastMsg.action \in HandledOutcomes)
        => lastMsg.signed /\ lastMsg.response # "none"

\* C21 amended: a request whose signature verified and that a handler
\* rejected had a signed 'rejected' response sent that carries the reason; an
\* accepted request served by a handler had a signed response sent with the
\* accepted txid and satoshis; a request refused for its signature, and a
\* web-research request that was accepted and queued, had no response sent
C21_ResponseUnlessSilent ==
    lastMsg.type = TypeServiceRequest
        => /\ (lastMsg.action = "rejected" /\ lastMsg.reason # "invalid-signature")
                  => /\ lastMsg.response = "rejected"
                     /\ lastMsg.signed
                     /\ lastMsg.responseReason = lastMsg.reason
           /\ lastMsg.action \in {"fulfilled", "partial"}
                  => /\ lastMsg.response = lastMsg.action
                     /\ lastMsg.signed
                     /\ lastMsg.accepted
                     /\ lastMsg.responseTxid = lastMsg.paymentTxid
                     /\ lastMsg.responseSats = lastMsg.satoshisReceived
           /\ (lastMsg.action = "queued" \/ lastMsg.reason = "invalid-signature")
                  => lastMsg.response = "none" /\ ~lastMsg.signed

C21_Witness ==
    /\ lastMsg.type = TypeServiceRequest
    /\ lastMsg.serviceId = "translate"
    /\ lastMsg.action = "rejected"
    /\ lastMsg.reason = "output underpaid"
    /\ lastMsg.response = "rejected"

\* C22: no failure of one message stops the listener: a frame that cannot
\* be parsed, an exception of a handler or of its relay send, and a failed
\* acknowledgement are caught, and the process stays alive and goes on to
\* the messages that follow
C22_ListenerSurvives ==
    /\ listener.alive
    /\ lastMsg.threw => listener.failed
    /\ listener.servedAfter => listener.failed

\* a joke was served and acknowledged after an earlier callback had failed
C22_Witness ==
    /\ listener.alive
    /\ listener.failed
    /\ listener.servedAfter
    /\ lastMsg.threw
    /\ \E i \in 1..Len(ledger) : ledger[i].serviceId = "tell-joke"

\* C23: a ping never reaches the payment verifier and leaves the ledger, the
\* frontier and the engine untouched; when the relay send returns, the
\* dispatcher has sent a signed pong and the message is acknowledged
C23_PingSkipsVerification ==
    [][(lastMsg'.kind = "msg" /\ lastMsg'.type = TypePing)
          => /\ lastMsg'.verifierCalls = <<>>
             /\ ledger' = ledger
             /\ frontier' = frontier
             /\ spends' = spends
             /\ lastOp' = lastOp
             /\ ~lastMsg'.threw
                    => /\ lastMsg'.action = "replied-pong"
                       /\ lastMsg'.response = "pong"
                       /\ lastMsg'.signed
                       /\ lastMsg'.ack]_vars

\* a pong was sent after a roulette payout had moved the frontier and a
\* payment had been recorded
C23_Witness ==
    /\ lastMsg.type = TypePing
    /\ lastMsg.action = "replied-pong"
    /\ lastMsg.sigValid = "null"
    /\ frontier # Present(1, 1, 500)
    /\ frontier.state = "present"
    /\ Len(ledger) > 0

\* the rounds of an indexer call that were followed by another round
Retried(c) == 1..(Len(c.answers) - 1)

\* C24 as stated: an indexer call is made at most 3 times in total, with a
\* delay of at most 8 s between two attempts
C24_AtMostThreeAttempts ==
    call.woc
        => /\ Len(call.answers) <= 3
           /\ \A i \in 1..Len(call.delays) : call.delays[i] <= WocBackoffCapMs

\* C24 amended: an indexer call is made at most 4 times in total (the call
\* and 3 retries); it is retried after a 429, a 5xx, a network error or a
\* timeout only; the delays are 1 s, 2 s, 4 s, never above 8 s; after the
\* last attempt a 429 or 5xx response is returned and an error is thrown
C24_ThreeRetries ==
    call.woc
        => /\ Len(call.answers) <= WocMaxRetries + 1
           /\ Len(call.delays) <= WocMaxRetries
           /\ \A i \in 1..Len(call.delays) :
                  /\ call.delays[i] = 1000 * Pow2(i - 1)
                  /\ call.delays[i] <= WocBackoffCapMs
           /\ call.pc \in {"returned", "threw"}
                  => \A i \in Retried(call) :
                         \/ RetryStatus(call.answers[i])
                         \/ call.answers[i] \in {NetworkError, NoAnswer}
           /\ call.pc = "returned"
                  => /\ call.answers[Len(call.answers)] \notin {NetworkError, NoAnswer}
                     /\ RetryStatus(call.answers[Len(call.answers)])
                            => Len(call.answers) = WocMaxRetries + 1
           /\ call.pc = "threw"
                  => /\ Len(call.answers) = WocMaxRetries + 1
                     /\ call.answers[Len(call.answers)] \in {NetworkError, NoAnswer}
           /\ call.pc # "blocked"

\* the fourth attempt of a call got a 429 again, after delays of 1, 2 and 4 s
C24_Witness ==
    /\ call.woc
    /\ call.pc = "returned"
    /\ call.answers = <<429, 500, NoAnswer, 429>>
    /\ call.delays = <<1000, 2000, 4000>>

\* C25 as stated: every outbound call is made with a timeout of 15 to 30 s,
\* and no call is left waiting for a peer that never answers
C25_EveryCallTimesOut ==
    /\ call.pc = "fetching" => call.timeoutMs \in 15000..30000
    /\ call.pc # "blocked"

\* C26: the delay before a reconnect is 1 s for the first disconnect and for
\* a disconnect of a connection that had opened, twice the previous delay
\* for a connection that closed without opening, and never above 30 s; an
\* open connection always has the delay back at 1 s
C26_ReconnectBackoff ==
    [][/\ listener'.reconnectDelay <= ReconnectCapMs
       /\ listener'.waited <= ReconnectCapMs
       /\ listener'.phase = "open" => listener'.reconnectDelay = ReconnectInitialMs
       /\ listener'.phase = "waiting"
              => listener'.reconnectDelay = Min(2 * listener'.waited, ReconnectCapMs)
       /\ (listener.phase = "open" /\ listener'.phase = "waiting")
              => listener'.waited = ReconnectInitialMs
       /\ (listener.phase = "connecting" /\ listener'.phase = "waiting")
              => listener'.waited =
                     IF listener.waited = 0 THEN ReconnectInitialMs
                     ELSE Min(2 * listener.waited, ReconnectCapMs)]_vars

\* the connection opened after the delay had reached 30 s
C26_Witness ==
    /\ listener.phase = "open"
    /\ listener.waited = ReconnectCapMs
    /\ listener.reconnectDelay = ReconnectInitialMs

\* C27 as stated: the cache file is deleted exactly when a sweep consumed
\* the frontier: after a successful refund no frontier is persisted, the
\* frontier that was persisted was among the refund's inputs, and a refund
\* that fails leaves the persisted frontier as it was
C27_ClearedWhenSwept ==
    lastOp.kind = "refund"
        => /\ lastOp.ok => frontier = Absent
           /\ (lastOp.cleared /\ lastOp.cached.state = "present")
                  => Outpoint(lastOp.cached) \in lastOp.inputs
           /\ ~lastOp.ok => (~lastOp.cleared /\ frontier = lastOp.cached)

\* C28 as stated: the transaction reconstructed from what was saved has the
\* ancestors of the saved transaction, in the same order, with the same
\* merkle paths
C28_RoundTrip ==
    lineage.stored.saved => reconstructFromChain(lineage.stored) = lineage.tx

\* C28 amended: the reconstructed transaction has the first 15 ancestors of
\* the saved transaction, in the same order, with the same merkle paths; it
\* is the saved transaction's linkage whenever that has at most 15 ancestors
C28_RoundTripToDepth ==
    lineage.stored.saved
        => /\ reconstructFromChain(lineage.stored) =
                  SubSeq(lineage.tx, 1, Min(Len(lineage.tx), SerializeDepth + 1))
           /\ Len(lineage.tx) - 1 <= SerializeDepth
                  => reconstructFromChain(lineage.stored) = lineage.tx

\* a saved transaction with 15 ancestors, the last one proven, comes back whole
C28_Witness ==
    /\ lineage.stored.saved
    /\ Len(lineage.tx) = SerializeDepth + 1
    /\ lineage.tx[SerializeDepth + 1].merklePath = ProofOf(Ancestor(0))
    /\ reconstructFromChain(lineage.stored) = lineage.tx

\* C29 as stated: the bundle of a build, and the chain saved with the new
\* frontier, hold the transaction and its ancestors up to and including the
\* first proven one: the last of them carries a merkle path
C29_EndsAtProvenAncestor ==
    lineage.builds > 0
        => /\ lineage.bundle[Len(lineage.bundle)].merklePath # <<>>
           /\ lineage.stored.sourceChain # <<>>
           /\ lineage.stored.sourceChain[Len(lineage.stored.sourceChain)].merklePathHex # <<>>

\* the MerklePath built from the same proof once more
Rebuilt(m) == buildMerklePathFromTSC(m.txid, m.txIndex, m.nodes, m.blockHeight)

\* the shape of the levels: two entries at level 0 in the order of their
\* offsets, the subject at txIndex and its sibling at txIndex XOR 1, and one
\* entry at every higher level i, at (txIndex >> i) XOR 1
LevelsAsSpecified(m) ==
    LET levels == m.merklePath.path
    IN  /\ Len(levels[1]) = 2
        /\ levels[1][1].offset < levels[1][2].offset
        /\ \E s \in 1..2 :
               /\ levels[1][s] = Leaf(m.txIndex, m.txid)
               /\ levels[1][3 - s].offset = Xor1(m.txIndex)
               /\ ~levels[1][3 - s].txid
               /\ IF m.nodes[1] = "*" THEN levels[1][3 - s].duplicate
                  ELSE ~levels[1][3 - s].duplicate /\ levels[1][3 - s].hash = m.nodes[1]
        /\ \A i \in 2..Len(levels) :
               /\ Len(levels[i]) = 1
               /\ levels[i][1].offset = Xor1(ShiftRight(m.txIndex, i - 1))
               /\ IF m.nodes[i] = "*" THEN levels[i][1].duplicate
                  ELSE ~levels[i][1].duplicate /\ levels[i][1].hash = m.nodes[i]

\* C30 as stated: for every proof the MerklePath has as many levels as the
\* proof has sibling nodes, level 0 holds the subject and its sibling in the
\* order of their offsets, every higher level holds the one sibling at
\* (txIndex >> i) XOR 1, and building it again gives the same structure
C30_MerklePathShape ==
    merkle.built
        => /\ Len(merkle.merklePath.path) = Len(merkle.nodes)
           /\ LevelsAsSpecified(merkle)
           /\ merkle.merklePath.blockHeight = merkle.blockHeight
           /\ Rebuilt(merkle) = merkle.merklePath

\* C31 as stated: when the sibling nodes of the indexer's proof are empty or
\* not an array, the proof reconstructor fails with MalformedProofError and
\* no MerklePath is returned or attached, and the failure ends that funding
\* attempt only: the resolution itself does not throw
C31_MalformedProofFails ==
    merkle.walk.done /\ (merkle.walk.kind # "array" \/ merkle.walk.length = 0)
        => /\ ~merkle.walk.attached
           /\ merkle.walk.error = "MalformedProofError"
           /\ merkle.walk.resolution # "threw"

\* C32 as stated: a signature is valid if and only if it is the signature made
\* with from's key over exactly the (to, type, payload) that is verified:
\* signing and verifying the same triple with the matching key succeeds, and
\* verification fails when to, type or payload differs from what was signed
\* or the key is not the signer's
C32_ValidIffSignedTriple ==
    auth.verified
        => (auth.valid <=> /\ auth.seenSignature = auth.signature
                           /\ auth.fromKey = auth.privKey
                           /\ auth.seenTo = auth.to
                           /\ auth.seenType = auth.type
                           /\ auth.seenPayload = auth.payload)

\* an outcome with everything that tells a corrupt file from a missing one
\* taken out: the file left behind, the file the operation recorded as
\* loaded, and the note that the first tier failed rather than was unavailable
AsAbsent(r) ==
    [r EXCEPT !.frontier = IF @.state = "corrupt" THEN Absent ELSE @,
              !.lastOp.cached = IF @.state = "corrupt" THEN Absent ELSE @,
              !.lastOp.attempts =
                  [i \in DOMAIN @ |-> IF @[i] = Attempt(1, "failed")
                                      THEN Attempt(1, "unavailable") ELSE @[i]]]

WithoutFile == [Cur EXCEPT !.frontier = Absent]

C34_BudgetEnforced ==
    /\ budget.file.exists => budget.file.totalSats <= DailyLimit(budget.dailyBudgetSats)
    /\ budget.last.outcome = "refused"
           => /\ budget.last.sats > budget.last.remaining
              /\ budget.last.sentAfter = budget.last.sentBefore
    /\ budget.last.outcome = "allowed" => budget.last.sats <= budget.last.remaining
    /\ budget.last.outcome \in {"refused", "allowed"}
           => /\ budget.last.remaining = budget.last.limit - budget.last.spent
              /\ budget.last.limit \in {DefaultDailyBudget, 500}

\* the payments that left the wallet on a day, in the order they were sent
SentOn(day) == SelectSeq(budget.sent, LAMBDA p : p.day = day)

RECURSIVE TotalSats(_)
TotalSats(payments) ==
    IF payments = <<>> THEN 0 ELSE Head(payments).sats + TotalSats(Tail(payments))

\* C35 as stated: once no tool call is in progress, the spending record of
\* the day holds one entry for every payment the 'pay' and 'request' actions
\* sent that day, with its amount, service and provider, and the recorded
\* total is the sum of those payments
C35_AllSpendingRecorded ==
    (\A c \in ToolCalls : budget.calls[c].pc = "idle")
        => LET spending == loadDailySpending(budget.file, budget.today)
               sentToday == SentOn(budget.today)
           IN  /\ spending.totalSats = TotalSats(sentToday)
               /\ Len(spending.transactions) = Len(sentToday)
               /\ \A i \in 1..Len(sentToday) :
                      \E j \in 1..Len(spending.transactions) :
                          /\ spending.transactions[j].sats = sentToday[i].sats
                          /\ spending.transactions[j].service = sentToday[i].service
                          /\ spending.transactions[j].provider = sentToday[i].provider

\* C36 as stated: every unspent output of at least 200 satoshis that appears
\* at the wallet address while the plugin runs is eventually imported by the
\* auto-import loop
C36_EventuallyImported ==
    \A key \in 1..MaxOutputs :
        (importer.running
             /\ \E o \in importer.outputs : o.key = key /\ o.value >= AutoImportMinValue)
            ~> (key \in importer.imported)

\* C37 as stated: a payment output (txid, outputIndex) buys at most one
\* service.  Stated on two deliveries in a row: when a request was fulfilled
\* against a recorded payment and the next delivered request is fulfilled
\* against a payment recorded for it, the second payment is not an output
\* the ledger already holds
C37_OnePaymentOneService ==
    [][(/\ lastMsg.response = "fulfilled" /\ lastMsg.accepted
        /\ lastMsg'.response = "fulfilled" /\ lastMsg'.accepted
        /\ Len(ledger) >= 1
        /\ Len(ledger') = Len(ledger) + 1)
          => \A i \in 1..Len(ledger) :
                 <<ledger[i].txid, ledger[i].vout>>
                     # <<ledger'[Len(ledger')].txid, ledger'[Len(ledger')].vout>>]_vars

\* C38 as stated: at most one connect child process is alive at any time,
\* whatever the order of starts, stops, child exits and restart timers
C38_AtMostOneListener == Cardinality(background.alive) <= 1

(***************************************************************************)
(* Acknowledgement at the end of a poll run                                *)
(***************************************************************************)
\* C39: at the end of a poll run, every message of the inbox whose dispatch
\* completed with ack = true has its id among the ids POSTed to /relay/ack,
\* also when the dispatch of a later message of the same inbox failed
C39_CompletedAcked ==
    lastPoll.polled
        => \A i \in 1..Len(lastPoll.results) :
               (lastPoll.results[i].ack /\ ~lastPoll.results[i].threw)
                   => lastPoll.results[i].id \in lastPoll.ackedIds

(***************************************************************************)
(* The paying output, whatever its position                                *)
(***************************************************************************)
\* the outputs of the transaction the verifier resolved from the bundle that
\* are standard pay-to-key-hash outputs to the recipient of at least minSats
\* (1-based positions); none when no transaction is resolved
PayingOutputs(seen) ==
    LET b == seen.bundle
        resolved == b.b64 /\ b.len >= 20 /\ (b.atomic \/ b.beef) /\ b.txs # <<>>
        paymentTx == IF b.atomic THEN b.txs[b.subject] ELSE b.txs[Len(b.txs)]
    IN  IF ~resolved THEN {}
        ELSE {i \in 1..Len(paymentTx.outputs) :
                 /\ paymentTx.outputs[i].std
                 /\ paymentTx.outputs[i].hash = seen.recipient
                 /\ paymentTx.outputs[i].satoshis >= seen.minSats}

\* C40: when the claimed amount is at least the minimum and the resolved
\* transaction has a standard pay-to-key-hash output to the recipient paying
\* at least the minimum, at any position, the bundle is accepted and the
\* reported outputIndex and satoshis are those of such an output
C40_AnyOutputOrder ==
    (/\ lastVerify.called
     /\ lastVerify.payment.present
     /\ lastVerify.payment.satoshis >= lastVerify.minSats
     /\ PayingOutputs(lastVerify) # {})
        => /\ lastVerify.result.accepted
           /\ lastVerify.result.outputIndex + 1 \in PayingOutputs(lastVerify)
           /\ \E i \in PayingOutputs(lastVerify) :
                  /\ lastVerify.result.outputIndex = i - 1
                  /\ lastVerify.result.satoshis =
                         (IF lastVerify.bundle.atomic
                          THEN lastVerify.bundle.txs[lastVerify.bundle.subject]
                          ELSE lastVerify.bundle.txs[Len(lastVerify.bundle.txs)]
                         ).outputs[i].satoshis

====
